---------------------------- MODULE Spec2Model ----------------------------
(***************************************************************************)
(* Control chart visual (PowerBI-Control-Chart).                           *)
(*                                                                         *)
(* The repository holds two builds of the class ControlChart:              *)
(*   "MR"  src/unnamed/part_000  limits from the moving range              *)
(*   "SD"  src/src/visual.ts     limits from the subgroup std deviation    *)
(* One refresh is one call of update(options): visualTransform, GetStages, *)
(* CalcStats, (plotting), ApplyRules.                                      *)
(*                                                                         *)
(* Numbers.  A JavaScript number is modelled as an exact extended          *)
(* rational [n, d]: d > 0 is the fraction n/d in lowest terms, d = 0 is    *)
(* NaN (n = 0), +Infinity (n = 1) or -Infinity (n = -1).  Math.sqrt is     *)
(* kept symbolic: a control limit is c + k * sqrt(r).  Array indices are   *)
(* those of the source (from 0); arrays are sequences read with At.        *)
(***************************************************************************)
EXTENDS Integers, Sequences, FiniteSets, TLC

VARIABLES variant, options, viewModel, chartStages, meanLine, uclLines,
          lclLines, stageDividers, drawn, flagged, threw, pc, window,
          lookedUp

vars == <<variant, options, viewModel, chartStages, meanLine, uclLines,
          lclLines, stageDividers, drawn, flagged, threw, pc, window,
          lookedUp>>

-----------------------------------------------------------------------------
(* JavaScript numbers *)

RECURSIVE GCD(_, _)
GCD(a, b) == IF b = 0 THEN a ELSE GCD(b, a % b)

AbsInt(a) == IF a < 0 THEN -a ELSE a

Sign(a) == IF a > 0 THEN 1 ELSE IF a < 0 THEN -1 ELSE 0

NaN == [n |-> 0, d |-> 0]

Infinity == [n |-> 1, d |-> 0]

Norm(n, d) ==
    IF d = 0 THEN [n |-> Sign(n), d |-> 0]
    ELSE LET g == GCD(AbsInt(n), AbsInt(d))
             s == Sign(d)
         IN  [n |-> (s * n) \div g, d |-> (s * d) \div g]

Num(i) == [n |-> i, d |-> 1]

IsNaN(a) == a.d = 0 /\ a.n = 0

IsFinite(a) == a.d > 0

Neg(a) == [n |-> -a.n, d |-> a.d]

Add(a, b) ==
    IF a.d > 0 /\ b.d > 0 THEN Norm(a.n * b.d + b.n * a.d, a.d * b.d)
    ELSE IF IsNaN(a) \/ IsNaN(b) THEN NaN
    ELSE IF a.d = 0 /\ b.d = 0 THEN (IF a.n = b.n THEN a ELSE NaN)
    ELSE IF a.d = 0 THEN a ELSE b

Sub(a, b) == Add(a, Neg(b))

Mul(a, b) == Norm(a.n * b.n, a.d * b.d)

Recip(a) ==
    IF a.n > 0 THEN [n |-> a.d, d |-> a.n]
    ELSE IF a.n < 0 THEN [n |-> -a.d, d |-> -a.n]
    ELSE IF a.d = 0 THEN NaN ELSE Infinity

Div(a, b) == Mul(a, Recip(b))

\* a < b and a > b of JavaScript: false as soon as one side is NaN
Lt(a, b) ==
    /\ ~IsNaN(a)
    /\ ~IsNaN(b)
    /\ IF a.d > 0 /\ b.d > 0 THEN a.n * b.d < b.n * a.d
       ELSE IF a.d = 0 /\ b.d = 0 THEN a.n < b.n
       ELSE IF a.d = 0 THEN a.n < 0 ELSE b.n > 0

Gt(a, b) == Lt(b, a)

AbsNum(a) == [n |-> AbsInt(a.n), d |-> a.d]

\* Math.round: the nearest integer, halves upwards
Round(a) ==
    IF a.d = 0 THEN a
    ELSE Num((2 * a.n + a.d) \div (2 * a.d))

-----------------------------------------------------------------------------
(* c + k * sqrt(r): the value of mean + numsds * Math.sqrt(...) *)

Surd(c, k, r) ==
    IF IsNaN(r) \/ Lt(r, Num(0)) THEN [c |-> NaN, k |-> Num(0), r |-> Num(0)]
    ELSE IF ~IsFinite(r) \/ ~IsFinite(c) \/ ~IsFinite(k)
         THEN [c |-> Add(c, Mul(k, r)), k |-> Num(0), r |-> Num(0)]
    ELSE IF k.n = 0 \/ r.n = 0 THEN [c |-> c, k |-> Num(0), r |-> Num(0)]
    ELSE [c |-> c, k |-> k, r |-> r]

Plain(a) == [c |-> a, k |-> Num(0), r |-> Num(0)]

SurdIsNaN(s) == IsNaN(s.c)

SurdIsFinite(s) == IsFinite(s.c)

\* y < c + k*sqrt(r), for a number y
LtSurd(y, s) ==
    IF ~IsFinite(s.c) \/ ~IsFinite(y) \/ s.k.n = 0 THEN Lt(y, s.c)
    ELSE LET dd == Sub(y, s.c)
             t == Mul(Mul(s.k, s.k), s.r)
             sq == Mul(dd, dd)
         IN  IF s.k.n > 0 THEN dd.n < 0 \/ Lt(sq, t)
             ELSE dd.n < 0 /\ Lt(t, sq)

\* y > c + k*sqrt(r), for a number y
GtSurd(y, s) ==
    IF ~IsFinite(s.c) \/ ~IsFinite(y) \/ s.k.n = 0 THEN Gt(y, s.c)
    ELSE LET dd == Sub(y, s.c)
             t == Mul(Mul(s.k, s.k), s.r)
             sq == Mul(dd, dd)
         IN  IF s.k.n > 0 THEN dd.n > 0 /\ Lt(t, sq)
             ELSE dd.n >= 0 \/ Lt(sq, t)

-----------------------------------------------------------------------------
(* Arrays of the source, indexed from 0 *)

At(arr, i) == arr[i + 1]

Push(arr, e) == Append(arr, e)

-----------------------------------------------------------------------------
(* Values handed over by the host *)

\* a category value: a number, a Date (v = its valueOf) or a string
XNumber(i) == [t |-> "number", v |-> Num(i)]

XDate(i) == [t |-> "date", v |-> Num(i)]

\* a string that is not the text of a number; "a" + 1 is "a1", and "a1" / 2 is NaN
XString == [t |-> "string", v |-> NaN]

\* a measure value: a number or null (a blank cell)
YNumber(i) == [t |-> "number", v |-> i]

YNull == [t |-> "null", v |-> 0]

\* the number an arithmetic operator or a comparison makes of a measure value
\* (null counts as 0)
ToNumber(y) == IF y.t = "number" THEN Num(y.v) ELSE Num(0)

\* valueOf() of a category value as the operand of +: a string makes the sum a
\* string, and the division by 2 that follows NaN
ValueOf(x) == IF x.t = "string" THEN NaN ELSE x.v

\* if (v): the truth value JavaScript gives a primitive value or a Date
TruthyX(x) == IF x.t = "number" THEN x.v.n # 0 ELSE TRUE

TruthyY(y) == y.t = "number" /\ y.v # 0

\* Object.prototype.toString.call(v) === '[object Number]' (or '[object Date]')
IsNumberOrDate(x) == x.t \in {"number", "date"}

-----------------------------------------------------------------------------
(* visualTransform *)

\* the view model visualTransform starts from and returns for unusable data
DefaultViewModel ==
    [dataPoints |-> <<>>, standardDeviations |-> Num(3), isDateRange |-> TRUE,
     runRule1 |-> FALSE, runRule2 |-> FALSE, runRule3 |-> FALSE,
     movingRange |-> Num(2), mRError |-> FALSE, useSDSubGroups |-> TRUE]

ChartDataPoints(o) ==
    [i \in 1..Len(o.x) |-> [xValue |-> o.x[i], yValue |-> o.y[i]]]

\* lines 263-267: the moving range the statistics pane holds, resolved
\* the moving range taken to the nearer end of 2..50 when it is outside
ResolveMovingRangeToBound(mRange) ==
    IF Lt(mRange, Num(2)) THEN Num(2)
    ELSE IF Gt(mRange, Num(50)) THEN Num(50) ELSE Round(mRange)

\* if (mRange < 2 || mRange > 50) mRange = 2; else mRange = Math.round(mRange)
ResolveMovingRange(mRange) ==
    IF Lt(mRange, Num(2)) \/ Gt(mRange, Num(50)) THEN Num(2) ELSE Round(mRange)

\* build "MR".  [threw, vm]: threw is TRUE when the call raises a TypeError
VisualTransformMR(o) ==
    IF ~o.categories \/ ~o.values
    THEN [threw |-> FALSE, vm |-> DefaultViewModel]
    ELSE LET isXAxisUsable == Len(o.x) > 0 /\ TruthyX(o.x[1]) /\ IsNumberOrDate(o.x[1])
             isYAxisNumericData == Len(o.y) > 0 /\ TruthyY(o.y[1])
         IN  IF isXAxisUsable /\ isYAxisNumericData
             THEN [threw |-> FALSE,
                   vm |-> [dataPoints |-> ChartDataPoints(o),
                           standardDeviations |-> o.standardDeviations,
                           isDateRange |-> o.x[1].t = "date",
                           runRule1 |-> o.runRule1,
                           runRule2 |-> o.runRule2,
                           runRule3 |-> o.runRule3,
                           movingRange |-> ResolveMovingRange(o.movingRange),
                           mRError |-> FALSE,
                           useSDSubGroups |-> TRUE]]
             ELSE [threw |-> FALSE, vm |-> DefaultViewModel]

\* build "SD": no check of the types; ChartDataPoints[0].xValue of an empty
\* series raises a TypeError
VisualTransformSD(o) ==
    IF ~o.categories \/ ~o.values
    THEN [threw |-> FALSE, vm |-> DefaultViewModel]
    ELSE IF Len(o.x) = 0
    THEN [threw |-> TRUE, vm |-> DefaultViewModel]
    ELSE [threw |-> FALSE,
          vm |-> [dataPoints |-> ChartDataPoints(o),
                  standardDeviations |-> o.standardDeviations,
                  isDateRange |-> o.x[1].t = "date",
                  runRule1 |-> o.runRule1,
                  runRule2 |-> o.runRule2,
                  runRule3 |-> o.runRule3,
                  movingRange |-> Num(2),
                  mRError |-> FALSE,
                  useSDSubGroups |-> o.useSDSubGroups]]

-----------------------------------------------------------------------------
(* GetStages *)

\* a stage pushed with the index of the point after its last one as lastId
StageRecordEndingLate(v, stage, endX, dividerX, lastId) ==
    IF v = "SD"
    THEN [startX |-> stage.startX, endX |-> endX, count |-> stage.count,
          mean |-> stage.mean, sum |-> stage.sum, sd |-> Plain(Num(0)),
          uCL |-> Plain(Num(0)), lCL |-> Plain(Num(0)), stage |-> stage.stage,
          stageDividerX |-> dividerX, firstId |-> stage.firstId,
          lastId |-> lastId + 1]
    ELSE [startX |-> stage.startX, endX |-> endX, count |-> stage.count,
          mean |-> stage.mean, sum |-> stage.sum,
          uCL |-> Plain(Num(0)), lCL |-> Plain(Num(0)), stage |-> stage.stage,
          stageDividerX |-> dividerX, firstId |-> stage.firstId,
          lastId |-> lastId + 1, mRError |-> FALSE]

\* a stage pushed with its start as stageDividerX
StageRecordDividedAtStart(v, stage, endX, dividerX, lastId) ==
    IF v = "SD"
    THEN [startX |-> stage.startX, endX |-> endX, count |-> stage.count,
          mean |-> stage.mean, sum |-> stage.sum, sd |-> Plain(Num(0)),
          uCL |-> Plain(Num(0)), lCL |-> Plain(Num(0)), stage |-> stage.stage,
          stageDividerX |-> stage.startX, firstId |-> stage.firstId,
          lastId |-> lastId]
    ELSE [startX |-> stage.startX, endX |-> endX, count |-> stage.count,
          mean |-> stage.mean, sum |-> stage.sum,
          uCL |-> Plain(Num(0)), lCL |-> Plain(Num(0)), stage |-> stage.stage,
          stageDividerX |-> stage.startX, firstId |-> stage.firstId,
          lastId |-> lastId, mRError |-> FALSE]

\* the object pushed on stages; build "MR" has mRError, build "SD" has sd
StageRecord(v, stage, endX, dividerX, lastId) ==
    IF v = "SD"
    THEN [startX |-> stage.startX, endX |-> endX, count |-> stage.count,
          mean |-> stage.mean, sum |-> stage.sum, sd |-> Plain(Num(0)),
          uCL |-> Plain(Num(0)), lCL |-> Plain(Num(0)), stage |-> stage.stage,
          stageDividerX |-> dividerX, firstId |-> stage.firstId, lastId |-> lastId]
    ELSE [startX |-> stage.startX, endX |-> endX, count |-> stage.count,
          mean |-> stage.mean, sum |-> stage.sum,
          uCL |-> Plain(Num(0)), lCL |-> Plain(Num(0)), stage |-> stage.stage,
          stageDividerX |-> dividerX, firstId |-> stage.firstId, lastId |-> lastId,
          mRError |-> FALSE]

\* the mean left as it was
StageMeanKept(stage) == stage.mean

\* the mean taken over one point more than the stage has
StageMeanOverOneMore(stage) ==
    IF stage.count > 0 THEN Div(stage.sum, Num(stage.count + 1)) ELSE stage.mean

\* stage.mean = stage.sum / stage.count, under if (stage.count > 0)
StageMean(stage) ==
    IF stage.count > 0 THEN Div(stage.sum, Num(stage.count)) ELSE stage.mean

\* the divider put at the first point of the next stage
DividerAtNext(endDate, nextStartDate) ==
    [t |-> "number", v |-> ValueOf(nextStartDate)]

\* ((nextStartDate.valueOf() + endDate.valueOf()) / 2)
DividerBetween(endDate, nextStartDate) ==
    [t |-> "number", v |-> Div(Add(ValueOf(nextStartDate), ValueOf(endDate)), Num(2))]

\* a pass that compares the label of the point with that of the first point
GetStagesStepFromFirstLabel(v, dataPoints, hasStages, labels, i, a) ==
    LET obj == At(dataPoints, i)
        stageValue == IF hasStages THEN At(labels, i) ELSE a.stageValue
        same == ~hasStages \/ At(labels, 0) = stageValue
        closed == [a.stage EXCEPT !.mean = StageMean(a.stage)]
        stage1 == IF same
                  THEN [a.stage EXCEPT !.sum = Add(a.stage.sum, ToNumber(obj.yValue)),
                                       !.count = a.stage.count + 1]
                  ELSE [mean |-> ToNumber(obj.yValue), count |-> 1,
                        sum |-> ToNumber(obj.yValue), startX |-> obj.xValue,
                        firstId |-> i, stage |-> stageValue]
        stages1 == IF same THEN a.stages
                   ELSE Push(a.stages,
                             StageRecord(v, closed, At(dataPoints, i - 1).xValue,
                                         DividerBetween(At(dataPoints, i - 1).xValue,
                                                        obj.xValue),
                                         i - 1))
        currentStage1 == IF hasStages THEN At(labels, i) ELSE a.currentStage
        last == [stage1 EXCEPT !.mean = StageMean(stage1), !.stage = stageValue]
    IN  IF i = Len(dataPoints) - 1
        THEN [stage |-> last, stageValue |-> stageValue,
              currentStage |-> currentStage1,
              stages |-> Push(stages1,
                              StageRecord(v, last, obj.xValue, obj.xValue, i))]
        ELSE [stage |-> stage1, stageValue |-> stageValue,
              currentStage |-> currentStage1, stages |-> stages1]

\* one pass of the for loop over the data points; a is
\* [stage, stageValue, currentStage, stages]
GetStagesStep(v, dataPoints, hasStages, labels, i, a) ==
    LET obj == At(dataPoints, i)
        stageValue == IF hasStages THEN At(labels, i) ELSE a.stageValue
        same == a.currentStage = stageValue \/ ~hasStages
        closed == [a.stage EXCEPT !.mean = StageMean(a.stage)]
        stage1 == IF same
                  THEN [a.stage EXCEPT !.sum = Add(a.stage.sum, ToNumber(obj.yValue)),
                                       !.count = a.stage.count + 1]
                  ELSE [mean |-> ToNumber(obj.yValue), count |-> 1,
                        sum |-> ToNumber(obj.yValue), startX |-> obj.xValue,
                        firstId |-> i, stage |-> stageValue]
        stages1 == IF same THEN a.stages
                   ELSE Push(a.stages,
                             StageRecord(v, closed, At(dataPoints, i - 1).xValue,
                                         DividerBetween(At(dataPoints, i - 1).xValue,
                                                        obj.xValue),
                                         i - 1))
        currentStage1 == IF hasStages THEN At(labels, i) ELSE a.currentStage
        last == [stage1 EXCEPT !.mean = StageMean(stage1), !.stage = stageValue]
    IN  IF i = Len(dataPoints) - 1
        THEN [stage |-> last, stageValue |-> stageValue,
              currentStage |-> currentStage1,
              stages |-> Push(stages1,
                              StageRecord(v, last, obj.xValue, obj.xValue, i))]
        ELSE [stage |-> stage1, stageValue |-> stageValue,
              currentStage |-> currentStage1, stages |-> stages1]

RECURSIVE GetStagesLoop(_, _, _, _, _, _)
GetStagesLoop(v, dataPoints, hasStages, labels, i, a) ==
    IF i >= Len(dataPoints) THEN a
    ELSE GetStagesLoop(v, dataPoints, hasStages, labels, i + 1,
                       GetStagesStep(v, dataPoints, hasStages, labels, i, a))

\* the stages of the data points of the view model; o is this.dataView.
\* Called only when dataPoints[0] exists.
GetStages(v, dataPoints, o) ==
    LET hasStages == o.stageColumn
        stageValue == IF hasStages THEN At(o.labels, 0) ELSE ""
        stage == [mean |-> Num(0), sum |-> Num(0), count |-> 0,
                  startX |-> At(dataPoints, 0).xValue, firstId |-> 0,
                  stage |-> stageValue]
    IN  GetStagesLoop(v, dataPoints, hasStages, o.labels, 0,
                      [stage |-> stage, stageValue |-> stageValue,
                       currentStage |-> stageValue, stages |-> <<>>]).stages

-----------------------------------------------------------------------------
(* CalcStats of build "MR": limits from the average moving range *)

\* d2Array, in thousandths
d2Array ==
    <<1000, 1128, 1693, 2059, 2326, 2534, 2704, 2847, 2970, 3078,
      3173, 3258, 3336, 3407, 3472, 3532, 3588, 3640, 3689, 3735,
      3778, 3819, 3858, 3895, 3931, 3964, 3997, 4027, 4057, 4086,
      4113, 4139, 4165, 4189, 4213, 4236, 4259, 4280, 4301, 4322,
      4341, 4361, 4379, 4398, 4415, 4433, 4450, 4466, 4482, 4498>>

\* the table read as if its first entry were that of window 2
LookUpd2FromTwo(mr) ==
    IF mr > 1 THEN Norm(At(d2Array, mr - 2), 1000) ELSE Num(1)

\* mr is a whole number
LookUpd2(mr) ==
    IF mr > 0 THEN Norm(At(d2Array, mr - 1), 1000) ELSE Num(1)

\* the inner loop over k, from j down to j - mr + 1: w is [mrMin, mrMax]
RECURSIVE WindowLoop(_, _, _, _)
WindowLoop(data, k, low, w) ==
    IF k < low THEN w
    ELSE LET y == ToNumber(At(data, k).yValue)
         IN  WindowLoop(data, k - 1, low,
                        [mrMin |-> IF Gt(w.mrMin, y) THEN y ELSE w.mrMin,
                         mrMax |-> IF Lt(w.mrMax, y) THEN y ELSE w.mrMax])

\* the indices read with the loop over k taken one point further back
WindowReadsOneMore(j, mr) == {j - 1} \cup ((j - mr)..j)

\* lines 901-908: the indices of data read for the window that ends at j,
\* j - 1 for mrMin and mrMax and then k from j down to j - mr + 1
WindowReads(j, mr) == {j - 1} \cup ((j - mr + 1)..j)

\* line 899: the values of j for a stage
WindowEnds(stage, mr) == (stage.firstId + mr - 1)..stage.lastId

\* the range taken between the two ends of the window
WindowRangeOfEnds(data, j, mr) ==
    AbsNum(Sub(ToNumber(At(data, j).yValue),
               ToNumber(At(data, j - mr + 1).yValue)))

\* Math.abs(mrMax - mrMin) of the window that ends at j
WindowRange(data, j, mr) ==
    LET y0 == ToNumber(At(data, j - 1).yValue)
        w == WindowLoop(data, j, j - mr + 1, [mrMin |-> y0, mrMax |-> y0])
    IN  AbsNum(Sub(w.mrMax, w.mrMin))

\* the loop over j, from firstId + mr - 1 to lastId
RECURSIVE MrRangeSum(_, _, _, _, _)
MrRangeSum(data, j, lastId, mr, mrRangeSum) ==
    IF j > lastId THEN mrRangeSum
    ELSE MrRangeSum(data, j + 1, lastId, mr,
                    Add(mrRangeSum, WindowRange(data, j, mr)))

\* a stage as long as the moving range marked mRError too
StageLimitsMRNeedingMore(data, stage, mr, numsds, d2) ==
    IF mr >= stage.count
    THEN [stage EXCEPT !.mRError = TRUE]
    ELSE LET mrRangeSum == MrRangeSum(data, stage.firstId + mr - 1, stage.lastId,
                                      mr, Num(0))
             rBar == Div(mrRangeSum, Num(stage.count - mr + 1))
             dev == Div(Mul(numsds, rBar), d2)
         IN  [stage EXCEPT !.uCL = Plain(Add(stage.mean, dev)),
                           !.lCL = Plain(Sub(stage.mean, dev))]

\* the sum of the ranges divided by one less than the number of windows
StageLimitsMROneRangeFewer(data, stage, mr, numsds, d2) ==
    IF mr > stage.count
    THEN [stage EXCEPT !.mRError = TRUE]
    ELSE LET mrRangeSum == MrRangeSum(data, stage.firstId + mr - 1, stage.lastId,
                                      mr, Num(0))
             rBar == Div(mrRangeSum, Num(stage.count - mr))
             dev == Div(Mul(numsds, rBar), d2)
         IN  [stage EXCEPT !.uCL = Plain(Add(stage.mean, dev)),
                           !.lCL = Plain(Sub(stage.mean, dev))]

\* lines 892-917: the stage with its limits, or marked mRError
StageLimitsMR(data, stage, mr, numsds, d2) ==
    IF mr > stage.count
    THEN [stage EXCEPT !.mRError = TRUE]
    ELSE LET mrRangeSum == MrRangeSum(data, stage.firstId + mr - 1, stage.lastId,
                                      mr, Num(0))
             rBar == Div(mrRangeSum, Num(stage.count - mr + 1))
             dev == Div(Mul(numsds, rBar), d2)
         IN  [stage EXCEPT !.uCL = Plain(Add(stage.mean, dev)),
                           !.lCL = Plain(Sub(stage.mean, dev))]

\* the line of a level y of stage i: from the divider before the stage (the
\* start of the first stage) to the divider of the stage
LimitLine(stages, i, y) ==
    [x1 |-> IF i > 0 THEN At(stages, i - 1).stageDividerX ELSE At(stages, i).startX,
     y1 |-> y, x2 |-> At(stages, i).stageDividerX, y2 |-> y]

\* lines 919 and 927 (918 and 925 of build "SD"): y1 is the mean of the stage
\* before, y2 the mean of the stage
MeanLine(stages, i) ==
    [x1 |-> IF i > 0 THEN At(stages, i - 1).stageDividerX ELSE At(stages, i).startX,
     y1 |-> IF i > 0 THEN At(stages, i - 1).mean ELSE At(stages, i).mean,
     x2 |-> At(stages, i).stageDividerX, y2 |-> At(stages, i).mean]

StageDivider(stages, i) ==
    [x1 |-> At(stages, i).stageDividerX,
     prevDividerX |-> IF i > 0 THEN At(stages, i - 1).stageDividerX
                      ELSE At(stages, i).startX,
     stageName |-> At(stages, i).stage]

\* the lines of the limits pushed for a stage marked mRError too
PushLinesMRForAll(c, stages, i, st) ==
    [stages |-> stages,
     meanLine |-> Push(c.meanLine, MeanLine(stages, i)),
     stageDividers |-> Push(c.stageDividers, StageDivider(stages, i)),
     uclLines |-> Push(c.uclLines, LimitLine(stages, i, st.uCL)),
     lclLines |-> Push(c.lclLines, LimitLine(stages, i, st.lCL)),
     mRError |-> c.mRError \/ st.mRError]

\* the loop over the stages; c is
\* [stages, meanLine, uclLines, lclLines, stageDividers, mRError]
\* lines 918-933: the lines of stage i, which is st in stages
PushLinesMR(c, stages, i, st) ==
    [stages |-> stages,
     meanLine |-> Push(c.meanLine, MeanLine(stages, i)),
     stageDividers |-> Push(c.stageDividers, StageDivider(stages, i)),
     uclLines |-> IF st.mRError THEN c.uclLines
                  ELSE Push(c.uclLines, LimitLine(stages, i, st.uCL)),
     lclLines |-> IF st.mRError THEN c.lclLines
                  ELSE Push(c.lclLines, LimitLine(stages, i, st.lCL)),
     mRError |-> c.mRError \/ st.mRError]

\* stage i of c replaced by st, the stage with its limits
StageDoneMR(c, i, st) == PushLinesMR(c, [c.stages EXCEPT ![i + 1] = st], i, st)

RECURSIVE CalcStatsLoopMR(_, _, _, _, _, _)
CalcStatsLoopMR(data, mr, numsds, d2, i, c) ==
    IF i >= Len(c.stages) THEN c
    ELSE CalcStatsLoopMR(data, mr, numsds, d2, i + 1,
             StageDoneMR(c, i, StageLimitsMR(data, At(c.stages, i), mr, numsds, d2)))

\* vm is this.controlChartViewModel, stages is this.chartStages
CalcStatsMR(vm, stages) ==
    CalcStatsLoopMR(vm.dataPoints, vm.movingRange.n, vm.standardDeviations,
                    LookUpd2(vm.movingRange.n), 0,
                    [stages |-> stages, meanLine |-> <<>>, uclLines |-> <<>>,
                     lclLines |-> <<>>, stageDividers |-> <<>>,
                     mRError |-> vm.mRError])

-----------------------------------------------------------------------------
(* CalcStats of build "SD": limits from the standard deviation *)

RECURSIVE findIndexByKeyValue(_, _, _)
findIndexByKeyValue(arraytosearch, valuetosearch, i) ==
    IF i >= Len(arraytosearch) THEN -1
    ELSE IF At(arraytosearch, i).stage = valuetosearch THEN i
    ELSE findIndexByKeyValue(arraytosearch, valuetosearch, i + 1)

\* a pass that leaves the mean of the group as the first stage gave it
GetUniqueStepKeepingMean(distinct, s) ==
    LET index == findIndexByKeyValue(distinct, s.stage, 0)
    IN  IF index < 0
        THEN Push(distinct, [stage |-> s.stage, sum |-> s.sum, count |-> s.count,
                             mean |-> s.mean])
        ELSE LET g == At(distinct, index)
             IN  [distinct EXCEPT ![index + 1] =
                     [stage |-> g.stage, sum |-> Add(g.sum, s.sum),
                      count |-> g.count + s.count, mean |-> g.mean]]

\* one pass of the loop of GetUnique over src
GetUniqueStep(distinct, s) ==
    LET index == findIndexByKeyValue(distinct, s.stage, 0)
    IN  IF index < 0
        THEN Push(distinct, [stage |-> s.stage, sum |-> s.sum, count |-> s.count,
                             mean |-> s.mean])
        ELSE LET g == At(distinct, index)
                 sum == Add(g.sum, s.sum)
                 count == g.count + s.count
             IN  [distinct EXCEPT ![index + 1] =
                     [stage |-> g.stage, sum |-> sum, count |-> count,
                      mean |-> IF count > 0 THEN Div(sum, Num(count)) ELSE g.mean]]

RECURSIVE GetUniqueLoop(_, _, _)
GetUniqueLoop(src, i, distinct) ==
    IF i >= Len(src) THEN distinct
    ELSE GetUniqueLoop(src, i + 1, GetUniqueStep(distinct, At(src, i)))

GetUnique(src) == GetUniqueLoop(src, 0, <<>>)

\* the sum over j of diff * diff, diff = data[j].yValue - mean
RECURSIVE SumDiffSqrd(_, _, _, _, _)
SumDiffSqrd(data, j, lastId, mean, acc) ==
    IF j > lastId THEN acc
    ELSE LET diff == Sub(ToNumber(At(data, j).yValue), mean)
         IN  SumDiffSqrd(data, j + 1, lastId, mean, Add(acc, Mul(diff, diff)))

\* lines 873-890, one stage; c is [stages, subGroups]
FirstPassSD(data, sdTotal, i, c) ==
    LET index == findIndexByKeyValue(c.subGroups, At(c.stages, i).stage, 0)
        g == At(c.subGroups, index)
        st == IF sdTotal
              THEN [At(c.stages, i) EXCEPT !.count = g.count, !.sum = g.sum,
                                           !.mean = g.mean]
              ELSE At(c.stages, i)
        sumdiffsqrd == SumDiffSqrd(data, st.firstId, st.lastId, st.mean, Num(0))
    IN  IF sdTotal
        THEN [stages |-> [c.stages EXCEPT ![i + 1] = st],
              subGroups |-> [c.subGroups EXCEPT ![index + 1].sum =
                                Add(g.sum, sumdiffsqrd)]]
        ELSE [stages |-> [c.stages EXCEPT ![i + 1] = [st EXCEPT !.sum = sumdiffsqrd]],
              subGroups |-> c.subGroups]

RECURSIVE FirstLoopSD(_, _, _, _)
FirstLoopSD(data, sdTotal, i, c) ==
    IF i >= Len(c.stages) THEN c
    ELSE FirstLoopSD(data, sdTotal, i + 1, FirstPassSD(data, sdTotal, i, c))

\* the division by count taken from a count of 8 on
SdRadicandFromEight(sum, count) ==
    IF count >= 8 THEN Div(sum, Num(count)) ELSE Div(sum, Num(count - 1))

\* lines 909-912: what Math.sqrt is applied to
SdRadicand(sum, count) ==
    IF count > 8 THEN Div(sum, Num(count)) ELSE Div(sum, Num(count - 1))

\* lines 894-916: the stage with sd, uCL and lCL
StageLimitsSD(stage, subGroups, sdTotal, numsds) ==
    LET index == findIndexByKeyValue(subGroups, stage.stage, 0)
        sum == IF sdTotal THEN At(subGroups, index).sum ELSE stage.sum
        count == IF sdTotal THEN At(subGroups, index).count ELSE stage.count
        mean == IF sdTotal THEN At(subGroups, index).mean ELSE stage.mean
        q == SdRadicand(sum, count)
    IN  [stage EXCEPT !.uCL = Surd(mean, numsds, q),
                      !.lCL = Surd(mean, Neg(numsds), q),
                      !.sd = Surd(Num(0), Num(1), q)]

\* the second loop over the stages; c is
\* [stages, meanLine, uclLines, lclLines, stageDividers]
PushLinesSD(c, stages, m, st) ==
    [stages |-> stages,
     meanLine |-> Push(c.meanLine, MeanLine(stages, m)),
     uclLines |-> Push(c.uclLines, LimitLine(stages, m, st.uCL)),
     lclLines |-> Push(c.lclLines, LimitLine(stages, m, st.lCL)),
     stageDividers |-> Push(c.stageDividers, StageDivider(stages, m)),
     mRError |-> FALSE]

\* stage m of c replaced by st, the stage with its limits
StageDoneSD(c, m, st) == PushLinesSD(c, [c.stages EXCEPT ![m + 1] = st], m, st)

RECURSIVE SecondLoopSD(_, _, _, _, _)
SecondLoopSD(subGroups, sdTotal, numsds, m, c) ==
    IF m >= Len(c.stages) THEN c
    ELSE SecondLoopSD(subGroups, sdTotal, numsds, m + 1,
             StageDoneSD(c, m, StageLimitsSD(At(c.stages, m), subGroups, sdTotal,
                                             numsds)))

CalcStatsSD(vm, stages) ==
    LET sdTotal == vm.useSDSubGroups
        subGroups == IF sdTotal THEN GetUnique(stages) ELSE <<>>
        first == FirstLoopSD(vm.dataPoints, sdTotal, 0,
                             [stages |-> stages, subGroups |-> subGroups])
    IN  SecondLoopSD(first.subGroups, sdTotal, vm.standardDeviations, 0,
                     [stages |-> first.stages, meanLine |-> <<>>, uclLines |-> <<>>,
                      lclLines |-> <<>>, stageDividers |-> <<>>, mRError |-> FALSE])

-----------------------------------------------------------------------------
(* ApplyRules *)

\* consecIncPoints.length > 5 and consecDecPoints.length > 5
Rule2Length == 5

\* consecutiveUPoints.length > 8 and consecutiveLPoints.length > 8
Rule3Length == 8

NoPoints ==
    [meanPoints |-> <<>>, consecIncPoints |-> <<>>, consecDecPoints |-> <<>>,
     consecutiveUPoints |-> <<>>, consecutiveLPoints |-> <<>>, drawn |-> <<>>]

\* a call this.DrawRulePoints(points), recorded with the name of the list passed
DrawRulePoints(calls, list, points) ==
    Push(calls, [list |-> list, points |-> points])

\* Rule #1 with >= and <=: a point on a limit pushed too
Rule1OnLimit(vm, stage, j, r) ==
    LET y == ToNumber(At(vm.dataPoints, j).yValue)
    IN  IF vm.runRule1 /\ (~LtSurd(y, stage.uCL) \/ ~GtSurd(y, stage.lCL))
        THEN [r EXCEPT !.meanPoints = Push(r.meanPoints, j)]
        ELSE r

\* Rule #1: r with j pushed on meanPoints when the point is beyond a limit
Rule1(vm, stage, j, r) ==
    LET y == ToNumber(At(vm.dataPoints, j).yValue)
    IN  IF vm.runRule1 /\ (GtSurd(y, stage.uCL) \/ LtSurd(y, stage.lCL))
        THEN [r EXCEPT !.meanPoints = Push(r.meanPoints, j)]
        ELSE r

\* Rule #2 with the list of increasing points emptied, not restarted at j, when
\* the point is not above the one before
Rule2IncEmptied(vm, j, r) ==
    IF j > 0
    THEN IF Gt(ToNumber(At(vm.dataPoints, j).yValue),
               ToNumber(At(vm.dataPoints, j - 1).yValue))
         THEN [r EXCEPT !.consecIncPoints = Push(r.consecIncPoints, j)]
         ELSE [r EXCEPT !.consecIncPoints = <<>>,
                        !.drawn = IF Len(r.consecIncPoints) > Rule2Length
                                  THEN DrawRulePoints(r.drawn, "consecIncPoints",
                                                      r.consecIncPoints)
                                  ELSE r.drawn]
    ELSE [r EXCEPT !.consecIncPoints = Push(r.consecIncPoints, j)]

\* Rule #2, the increasing points
Rule2Inc(vm, j, r) ==
    IF j > 0
    THEN IF Gt(ToNumber(At(vm.dataPoints, j).yValue),
               ToNumber(At(vm.dataPoints, j - 1).yValue))
         THEN [r EXCEPT !.consecIncPoints = Push(r.consecIncPoints, j)]
         ELSE [r EXCEPT !.consecIncPoints = <<j>>,
                        !.drawn = IF Len(r.consecIncPoints) > Rule2Length
                                  THEN DrawRulePoints(r.drawn, "consecIncPoints",
                                                      r.consecIncPoints)
                                  ELSE r.drawn]
    ELSE [r EXCEPT !.consecIncPoints = Push(r.consecIncPoints, j)]

\* Rule #2, the decreasing points
Rule2Dec(vm, j, r) ==
    IF j > 0
    THEN IF Lt(ToNumber(At(vm.dataPoints, j).yValue),
               ToNumber(At(vm.dataPoints, j - 1).yValue))
         THEN [r EXCEPT !.consecDecPoints = Push(r.consecDecPoints, j)]
         ELSE [r EXCEPT !.consecDecPoints = <<j>>,
                        !.drawn = IF Len(r.consecDecPoints) > Rule2Length
                                  THEN DrawRulePoints(r.drawn, "consecDecPoints",
                                                      r.consecDecPoints)
                                  ELSE r.drawn]
    ELSE [r EXCEPT !.consecDecPoints = Push(r.consecDecPoints, j)]

Rule2(vm, j, r) ==
    IF vm.runRule2 THEN Rule2Dec(vm, j, Rule2Inc(vm, j, r)) ELSE r

\* Rule #3 with the list of the other side kept when a point changes side
Rule3KeepingOtherSide(vm, stage, j, r) ==
    LET y == ToNumber(At(vm.dataPoints, j).yValue)
    IN  IF ~vm.runRule3 THEN r
        ELSE IF Gt(y, stage.mean)
        THEN [r EXCEPT !.consecutiveUPoints = Push(r.consecutiveUPoints, j),
                       !.drawn = IF Len(r.consecutiveLPoints) > Rule3Length
                                 THEN DrawRulePoints(r.drawn, "consecutiveLPoints",
                                                     r.consecutiveLPoints)
                                 ELSE r.drawn]
        ELSE IF Lt(y, stage.mean)
        THEN [r EXCEPT !.consecutiveLPoints = Push(r.consecutiveLPoints, j),
                       !.drawn = IF Len(r.consecutiveUPoints) > Rule3Length
                                 THEN DrawRulePoints(r.drawn, "consecutiveUPoints",
                                                     r.consecutiveUPoints)
                                 ELSE r.drawn]
        ELSE r

\* Rule #3: the points above and the points below the mean of the stage
Rule3(vm, stage, j, r) ==
    LET y == ToNumber(At(vm.dataPoints, j).yValue)
    IN  IF ~vm.runRule3 THEN r
        ELSE IF Gt(y, stage.mean)
        THEN [r EXCEPT !.consecutiveLPoints = <<>>,
                       !.consecutiveUPoints = Push(r.consecutiveUPoints, j),
                       !.drawn = IF Len(r.consecutiveLPoints) > Rule3Length
                                 THEN DrawRulePoints(r.drawn, "consecutiveLPoints",
                                                     r.consecutiveLPoints)
                                 ELSE r.drawn]
        ELSE IF Lt(y, stage.mean)
        THEN [r EXCEPT !.consecutiveUPoints = <<>>,
                       !.consecutiveLPoints = Push(r.consecutiveLPoints, j),
                       !.drawn = IF Len(r.consecutiveUPoints) > Rule3Length
                                 THEN DrawRulePoints(r.drawn, "consecutiveUPoints",
                                                     r.consecutiveUPoints)
                                 ELSE r.drawn]
        ELSE r

\* the rules tried in turn, Rule #2 and Rule #3 only when Rule #1 is off
RulePointFirstRuleOnly(vm, stage, j, r) ==
    IF vm.runRule1 THEN Rule1(vm, stage, j, r)
    ELSE Rule3(vm, stage, j, Rule2(vm, j, r))

\* the body of the loop over j
RulePoint(vm, stage, j, r) ==
    Rule3(vm, stage, j, Rule2(vm, j, Rule1(vm, stage, j, r)))

\* the loop over j, from stages[i].firstId to stages[i].lastId
RECURSIVE RulePoints(_, _, _, _)
RulePoints(vm, stage, j, r) ==
    IF j > stage.lastId THEN r
    ELSE RulePoints(vm, stage, j + 1, RulePoint(vm, stage, j, r))

\* the end of a stage with the lists of Rule #2 and Rule #3 kept for the next
RuleStageEndKeepingRuns(r) ==
    LET d1 == IF Len(r.meanPoints) > 0
              THEN DrawRulePoints(r.drawn, "meanPoints", r.meanPoints) ELSE r.drawn
        d2 == IF Len(r.consecutiveLPoints) > Rule3Length
              THEN DrawRulePoints(d1, "consecutiveLPoints", r.consecutiveLPoints)
              ELSE d1
        d3 == IF Len(r.consecutiveUPoints) > Rule3Length
              THEN DrawRulePoints(d2, "consecutiveUPoints", r.consecutiveUPoints)
              ELSE d2
        d4 == IF Len(r.consecIncPoints) > Rule2Length
              THEN DrawRulePoints(d3, "consecIncPoints", r.consecIncPoints) ELSE d3
        d5 == IF Len(r.consecDecPoints) > Rule2Length
              THEN DrawRulePoints(d4, "consecDecPoints", r.consecDecPoints) ELSE d4
    IN  [r EXCEPT !.meanPoints = <<>>, !.drawn = d5]

\* lines 1132-1148: after the last point of a stage
RuleStageEnd(r) ==
    LET d1 == IF Len(r.meanPoints) > 0
              THEN DrawRulePoints(r.drawn, "meanPoints", r.meanPoints) ELSE r.drawn
        d2 == IF Len(r.consecutiveLPoints) > Rule3Length
              THEN DrawRulePoints(d1, "consecutiveLPoints", r.consecutiveLPoints)
              ELSE d1
        d3 == IF Len(r.consecutiveUPoints) > Rule3Length
              THEN DrawRulePoints(d2, "consecutiveUPoints", r.consecutiveUPoints)
              ELSE d2
        d4 == IF Len(r.consecIncPoints) > Rule2Length
              THEN DrawRulePoints(d3, "consecIncPoints", r.consecIncPoints) ELSE d3
        d5 == IF Len(r.consecDecPoints) > Rule2Length
              THEN DrawRulePoints(d4, "consecDecPoints", r.consecDecPoints) ELSE d4
    IN  [NoPoints EXCEPT !.drawn = d5]

\* the lists at the end of the pass for point j of stage i, the stages before
\* i done (r)
RuleStage(vm, stage, r) ==
    RuleStageEnd(RulePoints(vm, stage, stage.firstId, r))

\* the loop over the stages
RECURSIVE RuleStages(_, _, _, _)
RuleStages(vm, stages, i, r) ==
    IF i >= Len(stages) THEN r
    ELSE RuleStages(vm, stages, i + 1, RuleStage(vm, At(stages, i), r))

\* the calls of DrawRulePoints that ApplyRules makes, in order
ApplyRules(vm, stages) == RuleStages(vm, stages, 0, NoPoints).drawn

\* the dots that the calls gave the fill ruleColor
RuleColored(calls) ==
    UNION {{c.points[k] : k \in 1..Len(c.points)} : c \in {calls[m] : m \in 1..Len(calls)}}

-----------------------------------------------------------------------------
(* update *)

CalcStats(v, vm, stages) ==
    IF v = "SD" THEN CalcStatsSD(vm, stages) ELSE CalcStatsMR(vm, stages)

\* the fields of a ControlChart just constructed (chartStages and
\* controlChartViewModel are undefined until the first update)
Constructed ==
    [viewModel |-> DefaultViewModel, chartStages |-> <<>>, meanLine |-> <<>>,
     uclLines |-> <<>>, lclLines |-> <<>>, stageDividers |-> <<>>,
     drawn |-> <<>>, flagged |-> {}, threw |-> FALSE]

\* the chart when ApplyRules has made the calls of DrawRulePoints
AfterApplyRules(vm, c, calls) ==
    [viewModel |-> vm, chartStages |-> c.stages, meanLine |-> c.meanLine,
     uclLines |-> c.uclLines, lclLines |-> c.lclLines,
     stageDividers |-> c.stageDividers, drawn |-> calls,
     flagged |-> RuleColored(calls), threw |-> FALSE]

\* PlotData (one dot for each data point) and ApplyRules
PlotAndApplyRules(vm, c) == AfterApplyRules(vm, c, ApplyRules(vm, c.stages))

\* the chart after CalcStats returned c (viewModel.mRError is set in CalcStats)
AfterCalcStats(vm, c) == PlotAndApplyRules([vm EXCEPT !.mRError = c.mRError], c)

\* the pipeline with the segments of the mean pushed on the list the chart holds
PipelineKeepingSegments(v, e, vm, o) ==
    [AfterCalcStats(vm, CalcStats(v, vm, GetStages(v, vm.dataPoints, o)))
        EXCEPT !.meanLine = e.meanLine \o @]

\* GetStages, CalcStats, PlotData (one dot for each data point) and ApplyRules
\* on the chart e, with the view model vm of the data view o; every field of
\* the chart is assigned anew
Pipeline(v, e, vm, o) ==
    AfterCalcStats(vm, CalcStats(v, vm, GetStages(v, vm.dataPoints, o)))

\* update of build "MR" on the chart e
UpdateMR(e, o) ==
    IF ~o.categories \/ ~o.values
    THEN [e EXCEPT !.flagged = {}, !.drawn = <<>>, !.threw = FALSE]
    ELSE LET vm == VisualTransformMR(o).vm
         IN  IF Len(vm.dataPoints) > 0
             THEN Pipeline("MR", e, vm, o)
             ELSE [e EXCEPT !.viewModel = vm, !.flagged = {}, !.drawn = <<>>,
                            !.threw = FALSE]

\* update of build "SD" on the chart e; svgGroupMain.empty() removes nothing
UpdateSD(e, o) ==
    IF ~o.categories \/ ~o.values
    THEN [e EXCEPT !.drawn = <<>>, !.threw = FALSE]
    ELSE LET t == VisualTransformSD(o)
         IN  IF t.threw
             THEN [e EXCEPT !.drawn = <<>>, !.threw = TRUE]
             ELSE IF Len(t.vm.dataPoints) > 0
             THEN Pipeline("SD", e, t.vm, o)
             ELSE [e EXCEPT !.viewModel = t.vm, !.flagged = {}, !.drawn = <<>>,
                            !.threw = FALSE]

UpdateChart(v, e, o) == IF v = "SD" THEN UpdateSD(e, o) ELSE UpdateMR(e, o)

Chart ==
    [viewModel |-> viewModel, chartStages |-> chartStages, meanLine |-> meanLine,
     uclLines |-> uclLines, lclLines |-> lclLines, stageDividers |-> stageDividers,
     drawn |-> drawn, flagged |-> flagged, threw |-> threw]

SetChart(e) ==
    /\ viewModel' = e.viewModel
    /\ chartStages' = e.chartStages
    /\ meanLine' = e.meanLine
    /\ uclLines' = e.uclLines
    /\ lclLines' = e.lclLines
    /\ stageDividers' = e.stageDividers
    /\ drawn' = e.drawn
    /\ flagged' = e.flagged
    /\ threw' = e.threw

\* one refresh: the host calls update(options) with the data view o
Update(o) ==
    /\ pc \in {"constructed", "updated"}
    /\ options' = o
    /\ SetChart(UpdateChart(variant, Chart, o))
    /\ pc' = "updated"
    /\ UNCHANGED <<variant, window, lookedUp>>

-----------------------------------------------------------------------------
(* The data views of the refreshes *)

\* the longest series of a refresh
MaxLen == 3

Builds == {"MR", "SD"}

StageNames == {"A", "B"}

\* a data view with a category column and a measure column; labels is the
\* second measure column (the stage of each point) when stageColumn
DataView(x, y, stageColumn, labels, mr, sds, r1, r2, r3, sub) ==
    [categories |-> TRUE, values |-> TRUE, x |-> x, y |-> y,
     stageColumn |-> stageColumn, labels |-> labels, movingRange |-> mr,
     standardDeviations |-> sds, runRule1 |-> r1, runRule2 |-> r2,
     runRule3 |-> r3, useSDSubGroups |-> sub]

\* positions 1, 2, .., n
Positions(n) == [i \in 1..n |-> XNumber(i)]

Dates(n) == [i \in 1..n |-> XDate(i)]

Numbers(ys) == [i \in 1..Len(ys) |-> YNumber(ys[i])]

\* no stage column, or a stage for each point (the first one "A")
Labelings(n) ==
    {[stageColumn |-> FALSE, labels |-> <<>>]}
    \cup {[stageColumn |-> TRUE, labels |-> l] :
            l \in {f \in [1..n -> StageNames] : f[1] = "A"}}

\* no stage column, or one change of stage, from "A" to "B" at point k (from 0)
SplitLabelings(n) ==
    {[stageColumn |-> FALSE, labels |-> <<>>]}
    \cup {[stageColumn |-> TRUE,
           labels |-> [i \in 1..n |-> IF i <= k THEN "A" ELSE "B"]] : k \in 1..n}

\* the settings of build v that the data views of the refreshes take
SubGroupSettings(v) == IF v = "SD" THEN BOOLEAN ELSE {TRUE}

\* the measure values of the refreshes
LifeValues == {1, 2}

\* well-formed series: numbers at ascending numeric positions, every rule on
GoodViews(v) ==
    UNION {{DataView(Positions(n), Numbers(ys), l.stageColumn, l.labels,
                     Num(2), Num(1), TRUE, TRUE, TRUE, sub) :
              ys \in [1..n -> LifeValues], l \in SplitLabelings(n),
              sub \in SubGroupSettings(v)} :
           n \in 1..MaxLen}

\* a series of two points with the positions x and the values y
PairView(x, y) ==
    DataView(x, y, FALSE, <<>>, Num(2), Num(1), TRUE, TRUE, TRUE, TRUE)

EmptyView == DataView(<<>>, <<>>, FALSE, <<>>, Num(2), Num(1), TRUE, TRUE, TRUE, TRUE)

\* no category column bound / no measure bound: categorical.categories /
\* categorical.values is undefined
NoCategories == [EmptyView EXCEPT !.categories = FALSE]

NoValues == [EmptyView EXCEPT !.values = FALSE]

\* data the visual is not made for
OddViews ==
    {NoCategories, NoValues, EmptyView,
     PairView(<<XString, XString>>, Numbers(<<1, 2>>)),
     PairView(<<XNumber(1), XString>>, Numbers(<<1, 2>>)),
     PairView(Positions(2), <<YNull, YNumber(1)>>),
     PairView(Positions(2), <<YNumber(1), YNull>>),
     PairView(Dates(2), Numbers(<<1, 2>>))}

Views(v) == GoodViews(v) \cup OddViews

-----------------------------------------------------------------------------
(* The visual in use: any sequence of refreshes *)

\* a chart just constructed, about to be refreshed with the data view o
ConstructedWith(o) ==
    /\ options = o
    /\ viewModel = Constructed.viewModel
    /\ chartStages = Constructed.chartStages
    /\ meanLine = Constructed.meanLine
    /\ uclLines = Constructed.uclLines
    /\ lclLines = Constructed.lclLines
    /\ stageDividers = Constructed.stageDividers
    /\ drawn = Constructed.drawn
    /\ flagged = Constructed.flagged
    /\ threw = Constructed.threw

\* window and lookedUp are the argument and the result of a call of LookUpd2
\* on its own; a refresh makes no such call
NotLookedUp == window = 2 /\ lookedUp = NaN

Init ==
    /\ variant \in Builds
    /\ pc = "constructed"
    /\ NotLookedUp
    /\ ConstructedWith(NoCategories)

Next == \E o \in Views(variant) : Update(o)

Spec == Init /\ [][Next]_vars

-----------------------------------------------------------------------------
(* One refresh of usable data, method by method *)

VisualTransform(v, o) ==
    IF v = "SD" THEN VisualTransformSD(o) ELSE VisualTransformMR(o)

\* this.controlChartViewModel = visualTransform(options, this.host)
Transform ==
    /\ pc = "start"
    /\ viewModel' = VisualTransform(variant, options).vm
    /\ pc' = "transformed"
    /\ UNCHANGED <<variant, options, chartStages, meanLine, uclLines, lclLines,
                   stageDividers, drawn, flagged, threw, window, lookedUp>>

\* this.GetStages(), under if (... dataPoints[0])
Segment ==
    /\ pc = "transformed"
    /\ Len(viewModel.dataPoints) > 0
    /\ chartStages' = GetStages(variant, viewModel.dataPoints, options)
    /\ pc' = "staged"
    /\ UNCHANGED <<variant, options, viewModel, meanLine, uclLines, lclLines,
                   stageDividers, drawn, flagged, threw, window, lookedUp>>

\* this.CalcStats()
Calculate ==
    /\ pc = "staged"
    /\ \E c \in {CalcStats(variant, viewModel, chartStages)} :
           /\ chartStages' = c.stages
           /\ meanLine' = c.meanLine
           /\ uclLines' = c.uclLines
           /\ lclLines' = c.lclLines
           /\ stageDividers' = c.stageDividers
           /\ viewModel' = [viewModel EXCEPT !.mRError = c.mRError]
    /\ pc' = "calculated"
    /\ UNCHANGED <<variant, options, drawn, flagged, threw, window, lookedUp>>

\* this.PlotData() and this.ApplyRules()
Evaluate ==
    /\ pc = "calculated"
    /\ drawn' = ApplyRules(viewModel, chartStages)
    /\ flagged' = RuleColored(drawn')
    /\ pc' = "ruled"
    /\ UNCHANGED <<variant, options, viewModel, chartStages, meanLine, uclLines,
                   lclLines, stageDividers, threw, window, lookedUp>>

NextStep == Transform \/ Segment \/ Calculate \/ Evaluate

\* the longest series of the method-by-method refresh
StatLen == 4

StatValues == {1, 2, 3}

\* the moving range and the number of standard deviations of build v
StatSettings(v) ==
    IF v = "SD"
    THEN {[mr |-> Num(2), sds |-> sds, sub |-> sub] :
            sds \in {Num(1), Num(3)}, sub \in BOOLEAN}
    ELSE {[mr |-> mr, sds |-> sds, sub |-> TRUE] :
            mr \in {Num(2), Num(3)}, sds \in {Num(1), Num(3)}}

StatView(ys, l, c) ==
    DataView(Positions(Len(ys)), Numbers(ys), l.stageColumn, l.labels,
             c.mr, c.sds, TRUE, TRUE, TRUE, c.sub)

InitStat ==
    /\ variant \in Builds
    /\ pc = "start"
    /\ NotLookedUp
    /\ \E n \in 1..StatLen :
         \E ys \in [1..n -> StatValues], l \in Labelings(n),
            c \in StatSettings(variant) :
             ConstructedWith(StatView(ys, l, c))

SpecStat == InitStat /\ [][NextStep]_vars

-----------------------------------------------------------------------------
(* One refresh of a series long enough for the runs of Rule #2 and Rule #3 *)

\* the longest series with Rule #2 alone
TrendLen == 7

\* the longest series with Rule #3 alone
RunLen == 11

\* the series of n values that start at 1 and move by -1, 0 or 1
RECURSIVE Walks(_)
Walks(n) ==
    IF n = 1 THEN {<<1>>}
    ELSE {Append(w, w[Len(w)] + d) : w \in Walks(n - 1), d \in {-1, 0, 1}}

\* the most changes of side in a series with Rule #3 alone
MaxTurns == 3

\* the series of n values 1 and 2 that change value MaxTurns times at most
Runs(n) ==
    {ys \in [1..n -> {1, 2}] :
        Cardinality({k \in 2..n : ys[k] # ys[k - 1]}) <= MaxTurns}

\* Rule #2 alone, on a series ys with the stages l
TrendView(ys, l) ==
    DataView(Positions(Len(ys)), Numbers(ys), l.stageColumn, l.labels,
             Num(2), Num(3), FALSE, TRUE, FALSE, TRUE)

\* Rule #3 alone
RunView(ys, l) ==
    DataView(Positions(Len(ys)), Numbers(ys), l.stageColumn, l.labels,
             Num(2), Num(3), FALSE, FALSE, TRUE, TRUE)

InitRules ==
    /\ variant \in Builds
    /\ pc = "constructed"
    /\ NotLookedUp
    /\ \/ \E n \in (Rule2Length + 1)..TrendLen :
            \E ys \in Walks(n), l \in SplitLabelings(n) :
                ConstructedWith(TrendView(ys, l))
       \/ \E n \in (Rule3Length + 2)..RunLen :
            \E ys \in Runs(n), l \in SplitLabelings(n) :
                ConstructedWith(RunView(ys, l))

\* the first refresh, with the data view the chart was given
FirstUpdate == pc = "constructed" /\ Update(options)

SpecRules == InitRules /\ [][FirstUpdate]_vars

-----------------------------------------------------------------------------
(* One refresh for each moving range of the format pane *)

\* the largest moving range of the format pane, in whole units
WindowTop == 52

\* the moving ranges: the tenths from -1 to WindowTop
WindowSettings == {Norm(k, 10) : k \in (-10)..(10 * WindowTop)}

WindowView(mr) ==
    DataView(Positions(4), Numbers(<<1, 3, 2, 4>>), FALSE, <<>>, mr, Num(3),
             TRUE, TRUE, TRUE, TRUE)

InitWindow ==
    /\ variant = "MR"
    /\ pc = "start"
    /\ NotLookedUp
    /\ \E mr \in WindowSettings : ConstructedWith(WindowView(mr))

SpecWindow == InitWindow /\ [][NextStep]_vars

-----------------------------------------------------------------------------
(* LookUpd2 on its own *)

\* the number of windows below 1 that LookUpd2 is called with
LowWindows == 10

\* LookUpd2 is about to be called with window
InitLookUp ==
    /\ variant = "MR"
    /\ pc = "lookup"
    /\ ConstructedWith(NoCategories)
    /\ window \in (1 - LowWindows)..Len(d2Array)
    /\ lookedUp = NaN

\* this.LookUpd2(window)
LookUp ==
    /\ pc = "lookup"
    /\ lookedUp' = LookUpd2(window)
    /\ pc' = "lookedup"
    /\ UNCHANGED <<variant, options, viewModel, chartStages, meanLine, uclLines,
                   lclLines, stageDividers, drawn, flagged, threw, window>>

SpecLookUp == InitLookUp /\ [][LookUp]_vars

-----------------------------------------------------------------------------
(* One refresh of a series of about ten points, one far from the others *)

\* the longest such series
SeriesLen == 10

\* how far from 90 the far value is taken
Spread == 5

ExampleValues == <<10, 12, 11, 13, 90, 14, 13, 15, 14, 16>>

\* the first n of the values (taken again from the first after the tenth),
\* with far as the fifth
Example(n, far) ==
    [i \in 1..n |-> IF i = 5 THEN far ELSE ExampleValues[((i - 1) % 10) + 1]]

\* moving range 2 and three standard deviations
SeriesSettings(v) ==
    {[mr |-> Num(2), sds |-> Num(3), sub |-> sub] : sub \in SubGroupSettings(v)}

InitSeries ==
    /\ variant \in Builds
    /\ pc = "start"
    /\ NotLookedUp
    /\ \E n \in (SeriesLen - 2)..SeriesLen :
         \E far \in (90 - Spread)..(90 + Spread), l \in SplitLabelings(n),
            c \in SeriesSettings(variant) :
             ConstructedWith(StatView(Example(n, far), l, c))

SpecSeries == InitSeries /\ [][NextStep]_vars

-----------------------------------------------------------------------------
(* One refresh of a series with points on the mean, Rule #3 alone *)

\* the length of the series
MeanLen == 11

\* how far below 0 the last value goes
Depth == 8

\* values 1 and 2 that change MaxTurns times at most, then one value from
\* -Depth to 0 that brings the mean down to one of them
Dips(n) ==
    {Append(ys, last) : ys \in Runs(n - 1), last \in (0 - Depth)..0}

InitMean ==
    /\ variant \in Builds
    /\ pc = "constructed"
    /\ NotLookedUp
    /\ \E ys \in Dips(MeanLen) :
           ConstructedWith(RunView(ys, [stageColumn |-> FALSE, labels |-> <<>>]))

SpecMean == InitMean /\ [][FirstUpdate]_vars

-----------------------------------------------------------------------------
(* One refresh for each choice of the rules *)

\* the longest series
FlagLen == 10

\* the series of n values that start at 1 and stay or go up by 1
RECURSIVE Climbs(_)
Climbs(n) ==
    IF n = 1 THEN {<<1>>}
    ELSE {Append(w, w[Len(w)] + d) : w \in Climbs(n - 1), d \in {0, 1}}

\* no stage column, or two stages of the same length
HalfLabelings(n) ==
    {[stageColumn |-> FALSE, labels |-> <<>>],
     [stageColumn |-> TRUE,
      labels |-> [i \in 1..n |-> IF 2 * i <= n THEN "A" ELSE "B"]]}

\* a series with the rules r1, r2, r3 and one standard deviation
FlagView(ys, l, r1, r2, r3) ==
    DataView(Positions(Len(ys)), Numbers(ys), l.stageColumn, l.labels,
             Num(2), Num(1), r1, r2, r3, TRUE)

InitFlags ==
    /\ variant \in Builds
    /\ pc = "constructed"
    /\ NotLookedUp
    /\ \E ys \in Climbs(FlagLen), l \in HalfLabelings(FlagLen),
          r1 \in BOOLEAN, r2 \in BOOLEAN, r3 \in BOOLEAN :
           ConstructedWith(FlagView(ys, l, r1, r2, r3))

SpecFlags == InitFlags /\ [][FirstUpdate]_vars

-----------------------------------------------------------------------------
(* One refresh of build "MR" with series that start at 0 *)

\* the longest series
ZeroLen == 3

\* numbers, or dates, from first on
PositionsFrom(first, n) ==
    {[i \in 1..n |-> XNumber(first + i - 1)], [i \in 1..n |-> XDate(first + i - 1)]}

ZeroView(x, ys) ==
    DataView(x, Numbers(ys), FALSE, <<>>, Num(2), Num(3), TRUE, TRUE, TRUE, TRUE)

InitZero ==
    /\ variant = "MR"
    /\ pc = "constructed"
    /\ NotLookedUp
    /\ \E n \in 1..ZeroLen, first \in {0, 1} :
         \E x \in PositionsFrom(first, n), ys \in [1..n -> {0, 1, 2}] :
             ConstructedWith(ZeroView(x, ys))

SpecZero == InitZero /\ [][FirstUpdate]_vars

-----------------------------------------------------------------------------
(* Properties *)

NPoints == Len(viewModel.dataPoints)

StageIds == 0..(Len(chartStages) - 1)

YValue(j) == ToNumber(At(viewModel.dataPoints, j).yValue)

PointsOf(st) == st.firstId..st.lastId

RECURSIVE SumOfCounts(_, _)
SumOfCounts(stages, i) ==
    IF i >= Len(stages) THEN 0 ELSE At(stages, i).count + SumOfCounts(stages, i + 1)

\* the points that calls of DrawRulePoints with the list named list coloured
ColoredBy(list) ==
    UNION {{c.points[k] : k \in 1..Len(c.points)} :
             c \in {drawn[m] : m \in {m \in 1..Len(drawn) : drawn[m].list = list}}}

\* C1: the stages GetStages produces partition the indices 0..n-1: the first
\* starts at 0, each later one starts right after the one before, the last ends
\* at n-1, each has firstId <= lastId and count = lastId - firstId + 1, and the
\* counts sum to n.
StagesPartitionTheSeries ==
    pc = "staged" =>
        /\ Len(chartStages) >= 1
        /\ At(chartStages, 0).firstId = 0
        /\ At(chartStages, Len(chartStages) - 1).lastId = NPoints - 1
        /\ \A i \in StageIds :
             /\ At(chartStages, i).firstId <= At(chartStages, i).lastId
             /\ At(chartStages, i).count =
                  At(chartStages, i).lastId - At(chartStages, i).firstId + 1
             /\ i > 0 => At(chartStages, i).firstId = At(chartStages, i - 1).lastId + 1
        /\ SumOfCounts(chartStages, 0) = NPoints

\* three stages, the first stage recurring as the third, cut out of four points
StagesPartitionWitness ==
    /\ pc = "staged"
    /\ NPoints = 4
    /\ Len(chartStages) = 3
    /\ At(chartStages, 0).stage = At(chartStages, 2).stage
    /\ At(chartStages, 1).count = 2

\* data a refresh cannot use: no category column, no measure, a position that
\* is no number and no Date, positions of two types, a value that is no number
Unusable(o) ==
    \/ ~o.categories
    \/ ~o.values
    \/ \E i \in 1..Len(o.x) : ~IsNumberOrDate(o.x[i]) \/ o.x[i].t # o.x[1].t
    \/ \E i \in 1..Len(o.y) : o.y[i].t # "number"

\* C2: a refresh with unusable data raises no exception and leaves a neutral
\* result: no stages, no mean/UCL/LCL segments, no flagged points.
UnusableDataGivesNeutralResult ==
    (pc = "updated" /\ Unusable(options)) =>
        /\ ~threw
        /\ chartStages = <<>>
        /\ meanLine = <<>>
        /\ uclLines = <<>>
        /\ lclLines = <<>>
        /\ flagged = {}

\* what a refresh leaves for the renderer
Produced(e) ==
    [chartStages |-> e.chartStages, meanLine |-> e.meanLine,
     uclLines |-> e.uclLines, lclLines |-> e.lclLines,
     stageDividers |-> e.stageDividers]

\* C3: after any sequence of refreshes, the stages, the mean/UCL/LCL segments
\* and the stage dividers are those the last refresh's data view gives a chart
\* that has seen no other refresh (so empty after unusable data).
ResultDependsOnLastRefreshOnly ==
    pc = "updated" =>
        Produced(Chart) = Produced(UpdateChart(variant, Constructed, options))

SmallGroupHasStandardDeviation ==
    (variant = "SD" /\ pc \in {"calculated", "ruled"}) =>
        \A i \in StageIds :
            At(chartStages, i).count <= 1 => SurdIsFinite(At(chartStages, i).sd)

\* the stages whose limits CalcStats computed
HasLimits(st) == IF variant = "MR" THEN ~st.mRError ELSE TRUE

\* y is the limit exactly
OnLimit(y, limit) ==
    SurdIsFinite(limit) /\ ~GtSurd(y, limit) /\ ~LtSurd(y, limit)

\* C7: with runRule1, a point of a stage with limits is flagged by Rule #1
\* exactly when its value is above uCL or below lCL of its stage; a value equal
\* to uCL or to lCL is not flagged.
Rule1FlagsBeyondLimits ==
    (pc = "ruled" /\ viewModel.runRule1) =>
        \A i \in StageIds :
            HasLimits(At(chartStages, i)) =>
                \A j \in PointsOf(At(chartStages, i)) :
                    /\ j \in ColoredBy("meanPoints") <=>
                           \/ GtSurd(YValue(j), At(chartStages, i).uCL)
                           \/ LtSurd(YValue(j), At(chartStages, i).lCL)
                    /\ (\/ OnLimit(YValue(j), At(chartStages, i).uCL)
                        \/ OnLimit(YValue(j), At(chartStages, i).lCL))
                           => j \notin flagged

\* a stage with limits apart, one point on its uCL and another on its lCL,
\* neither flagged
Rule1Witness ==
    /\ pc = "ruled"
    /\ viewModel.runRule1
    /\ \E i \in StageIds :
         /\ HasLimits(At(chartStages, i))
         /\ \E j, k \in PointsOf(At(chartStages, i)) :
              /\ Gt(YValue(j), YValue(k))
              /\ OnLimit(YValue(j), At(chartStages, i).uCL)
              /\ OnLimit(YValue(k), At(chartStages, i).lCL)
              /\ j \notin flagged
              /\ k \notin flagged

\* the points a..b rise, each above the one before
Rising(a, b) == \A k \in (a + 1)..b : Gt(YValue(k), YValue(k - 1))

\* the points a..b fall, each below the one before
Falling(a, b) == \A k \in (a + 1)..b : Lt(YValue(k), YValue(k - 1))

\* j is one of six or more points in a row of the stage st that rise or fall
InTrend(j, st) ==
    \E a \in st.firstId..j, b \in j..st.lastId :
        /\ b - a + 1 >= 6
        /\ Rising(a, b) \/ Falling(a, b)

OnlyRule2 ==
    /\ pc = "updated"
    /\ ~threw
    /\ ~viewModel.runRule1 /\ viewModel.runRule2 /\ ~viewModel.runRule3

\* C8: with Rule #2 alone, a point is flagged exactly when it is one of a run of
\* six or more consecutive points of one stage (the starting point counted)
\* that is strictly increasing or strictly decreasing.
Rule2FlagsTrends ==
    OnlyRule2 =>
        \A i \in StageIds :
            \A j \in PointsOf(At(chartStages, i)) :
                j \in flagged <=> InTrend(j, At(chartStages, i))

\* seven points, the last six a falling run that ends with the series; the
\* first, which the run does not reach, is not flagged
Rule2Witness ==
    /\ OnlyRule2
    /\ NPoints = 7
    /\ Len(chartStages) = 1
    /\ Falling(1, 6)
    /\ ~Falling(0, 1)
    /\ flagged = 1..6

\* the mean of the points of st
MeanOfPoints(st) ==
    LET RECURSIVE SumFrom(_)
        SumFrom(j) == IF j > st.lastId THEN Num(0) ELSE Add(YValue(j), SumFrom(j + 1))
    IN  Div(SumFrom(st.firstId), Num(st.lastId - st.firstId + 1))

\* the points a..b are all above m, or all below
OneSide(a, b, m) ==
    \/ \A k \in a..b : Gt(YValue(k), m)
    \/ \A k \in a..b : Lt(YValue(k), m)

\* j is one of nine or more points in a row of the stage st on one side of its mean
InRun(j, st) ==
    \E a \in st.firstId..j, b \in j..st.lastId :
        /\ b - a + 1 >= 9
        /\ OneSide(a, b, MeanOfPoints(st))

OnlyRule3 ==
    /\ pc = "updated"
    /\ ~threw
    /\ ~viewModel.runRule1 /\ ~viewModel.runRule2 /\ viewModel.runRule3

NoPointOnMean ==
    \A i \in StageIds :
        \A j \in PointsOf(At(chartStages, i)) :
            YValue(j) # MeanOfPoints(At(chartStages, i))

\* C9: with Rule #3 alone and no point equal to the mean of its stage, a point
\* is flagged exactly when it is one of a run of nine or more consecutive points
\* of one stage that are all above, or all below, the mean of that stage; a run
\* of eight flags nothing, however it ends.
Rule3FlagsRuns ==
    (OnlyRule3 /\ NoPointOnMean) =>
        \A i \in StageIds :
            \A j \in PointsOf(At(chartStages, i)) :
                j \in flagged <=> InRun(j, At(chartStages, i))

\* one stage of eleven points: a point below the mean, nine above it, all
\* flagged, and a point below that ends the run
Rule3Witness ==
    /\ OnlyRule3
    /\ NoPointOnMean
    /\ NPoints = 11
    /\ Len(chartStages) = 1
    /\ flagged = 1..9

\* the lists of ApplyRules after the first point of stage i
AfterFirstPoint(i) ==
    RulePoint(viewModel, At(chartStages, i), At(chartStages, i).firstId,
              RuleStages(viewModel, SubSeq(chartStages, 1, i), 0, NoPoints))

RunLists ==
    {"consecIncPoints", "consecDecPoints", "consecutiveUPoints", "consecutiveLPoints"}

\* C10: a run that Rule #2 or Rule #3 flags holds points of one stage only, and
\* after the first point of a stage each list of a run holds one point at most,
\* whatever the last point of the stage before was.
RunsStayInOneStage ==
    (pc = "updated" /\ ~threw) =>
        /\ \A m \in 1..Len(drawn) :
             drawn[m].list \in RunLists =>
                 \E i \in StageIds :
                     \A k \in 1..Len(drawn[m].points) :
                         drawn[m].points[k] \in PointsOf(At(chartStages, i))
        /\ \A i \in StageIds :
             /\ Len(AfterFirstPoint(i).consecIncPoints) <= 1
             /\ Len(AfterFirstPoint(i).consecDecPoints) <= 1
             /\ Len(AfterFirstPoint(i).consecutiveUPoints) <= 1
             /\ Len(AfterFirstPoint(i).consecutiveLPoints) <= 1

\* seven rising points cut in two stages of three and four: nothing is flagged
RunsStayWitness ==
    /\ OnlyRule2
    /\ NPoints = 7
    /\ Len(chartStages) = 2
    /\ At(chartStages, 0).count = 3
    /\ Rising(0, 6)
    /\ flagged = {}

\* C11: whatever moving range is configured, visualTransform raises no error
\* and resolves a whole window from 2 to 50: a value from 2 to 50 gives the
\* nearest whole number, and a value below 2 or above 50 (51, 50.4) gives 2,
\* not the nearer end of the range.
WindowResolved ==
    (variant = "MR" /\ pc # "start" /\ pc # "lookup" /\ pc # "lookedup"
        /\ Len(options.y) > 0) =>
        /\ ~threw
        /\ ~VisualTransform(variant, options).threw
        /\ viewModel.movingRange.d = 1
        /\ viewModel.movingRange.n >= 2
        /\ viewModel.movingRange.n <= 50
        /\ (Lt(options.movingRange, Num(2)) \/ Gt(options.movingRange, Num(50)))
               => viewModel.movingRange = Num(2)
        /\ (~Lt(options.movingRange, Num(2)) /\ ~Gt(options.movingRange, Num(50)))
               => ~Gt(Mul(Num(2), AbsNum(Sub(viewModel.movingRange,
                                              options.movingRange))), Num(1))

\* a moving range of 50.4 has been resolved to 2
WindowResolvedWitness ==
    /\ variant = "MR"
    /\ pc = "transformed"
    /\ options.movingRange = Norm(504, 10)
    /\ viewModel.movingRange = Num(2)

\* C12: LookUpd2 returns 1.128 for window 2, 2.326 for window 5 and 1 for
\* every window of 0 or less; for every window from 1 to 50 the index
\* window - 1 is inside the table of 50 entries and the entry is returned.
LookUpd2Table ==
    pc = "lookedup" =>
        /\ Len(d2Array) = 50
        /\ window = 2 => lookedUp = Norm(1128, 1000)
        /\ window = 5 => lookedUp = Norm(2326, 1000)
        /\ window <= 0 => lookedUp = Num(1)
        /\ window \in 1..50 =>
               /\ window - 1 >= 0
               /\ window - 1 < Len(d2Array)
               /\ IsFinite(lookedUp)
               /\ lookedUp = Norm(d2Array[window], 1000)

\* LookUpd2 has been called with window 5
LookUpd2Witness ==
    /\ pc = "lookedup"
    /\ window = 5
    /\ lookedUp = Norm(2326, 1000)

\* the sum of the values of the points ids
RECURSIVE SumOver(_)
SumOver(ids) ==
    IF ids = {} THEN Num(0)
    ELSE LET j == CHOOSE k \in ids : TRUE
         IN  Add(YValue(j), SumOver(ids \ {j}))

\* the sum over the points ids of the squared deviation from m
RECURSIVE SquaresOver(_, _)
SquaresOver(ids, m) ==
    IF ids = {} THEN Num(0)
    ELSE LET j == CHOOSE k \in ids : TRUE
         IN  Add(Mul(Sub(YValue(j), m), Sub(YValue(j), m)),
                 SquaresOver(ids \ {j}, m))

MeanOver(ids) == Div(SumOver(ids), Num(Cardinality(ids)))

\* the sum of squares ss of count points divided by count when count is
\* above 8, by count - 1 otherwise
SquaredSdOf(ss, count) ==
    IF count > 8 THEN Div(ss, Num(count)) ELSE Div(ss, Num(count - 1))

\* st has mean m and standard deviation sqrt(q); its limits are
\* m +/- numsds * sqrt(q)
LimitsAre(st, m, q) ==
    /\ st.sd = Surd(Num(0), Num(1), q)
    /\ st.uCL = Surd(m, viewModel.standardDeviations, q)
    /\ st.lCL = Surd(m, Neg(viewModel.standardDeviations), q)

\* C13: in build "SD" without useSDSubGroups, every stage of 2 points or
\* more has a squared standard deviation of S / count when count > 8 and of
\* S / (count - 1) when count <= 8, S the sum over the points of the stage of
\* the squared deviation from the mean of the stage, and uCL, lCL are
\* mean +/- numsds * sd.
StageDeviationFromOwnPoints ==
    (variant = "SD" /\ pc \in {"calculated", "ruled"}
        /\ ~viewModel.useSDSubGroups) =>
        \A i \in StageIds :
            Cardinality(PointsOf(At(chartStages, i))) >= 2 =>
                LimitsAre(At(chartStages, i),
                          MeanOver(PointsOf(At(chartStages, i))),
                          SquaredSdOf(SquaresOver(PointsOf(At(chartStages, i)),
                                          MeanOver(PointsOf(At(chartStages, i)))),
                                      Cardinality(PointsOf(At(chartStages, i)))))

\* a stage of 8 points and one of 2, each with a standard deviation above 0
StageDeviationWitness ==
    /\ variant = "SD"
    /\ pc = "calculated"
    /\ ~viewModel.useSDSubGroups
    /\ Len(chartStages) = 2
    /\ At(chartStages, 0).lastId - At(chartStages, 0).firstId + 1 = 8
    /\ At(chartStages, 0).sd.r.n > 0
    /\ At(chartStages, 1).sd.r.n > 0

\* the points of all the stages with the label of stage st
GroupPoints(st) ==
    UNION {PointsOf(At(chartStages, i)) :
             i \in {k \in StageIds : At(chartStages, k).stage = st.stage}}

\* C14: in build "SD" with useSDSubGroups, for every group of stages with one
\* label that has 2 points or more, what is divided by count (count > 8) or
\* by count - 1 (count <= 8) to give the squared standard deviation is the
\* sum of squares of the group alone: the sum over all the points of all the
\* stages with the label of the squared deviation from the mean of the group,
\* with nothing added to it (not the sum of the values of the group).
GroupDeviationFromOwnPoints ==
    (variant = "SD" /\ pc \in {"calculated", "ruled"}
        /\ viewModel.useSDSubGroups) =>
        \A i \in StageIds :
            Cardinality(GroupPoints(At(chartStages, i))) >= 2 =>
                At(chartStages, i).sd =
                    Surd(Num(0), Num(1),
                         SquaredSdOf(SquaresOver(GroupPoints(At(chartStages, i)),
                                         MeanOver(GroupPoints(At(chartStages, i)))),
                                     Cardinality(GroupPoints(At(chartStages, i)))))

\* build "MR" past GetStages on the series 10, 12, 11, 13, 90, 14, 13, 15,
\* 14, 16 in one stage, with moving range 2 and three standard deviations
ExampleStaged ==
    /\ variant = "MR"
    /\ pc \in {"staged", "calculated", "ruled"}
    /\ ~options.stageColumn
    /\ options.y = Numbers(ExampleValues)
    /\ viewModel.movingRange = Num(2)
    /\ viewModel.standardDeviations = Num(3)

\* C15 as stated: for that series the mean of the stage is 14.7.
ExampleMeanIs147 ==
    ExampleStaged =>
        /\ Len(chartStages) = 1
        /\ At(chartStages, 0).mean = Norm(147, 10)

\* C15: for that series the mean of the stage is 20.8, the sum 208 of the
\* ten values divided by 10.
ExampleMeanIs208 ==
    ExampleStaged =>
        /\ Len(chartStages) = 1
        /\ At(chartStages, 0).sum = Num(208)
        /\ At(chartStages, 0).mean = Norm(208, 10)

\* the refresh of that series has run to its end
ExampleMeanWitness ==
    /\ ExampleStaged
    /\ pc = "ruled"
    /\ At(chartStages, 0).count = 10
    /\ At(chartStages, 0).mean = Norm(208, 10)

\* the sum of |y[j] - y[j - 1]| for j from a to b
RECURSIVE PairRanges(_, _)
PairRanges(a, b) ==
    IF a > b THEN Num(0)
    ELSE Add(AbsNum(Sub(YValue(a), YValue(a - 1))), PairRanges(a + 1, b))

\* uCL and lCL of st are m +/- 3 * rBar / 1.128
ThreeSigmaLimits(st, m, rBar) ==
    /\ st.uCL = Plain(Add(m, Div(Mul(Num(3), rBar), Norm(1128, 1000))))
    /\ st.lCL = Plain(Sub(m, Div(Mul(Num(3), rBar), Norm(1128, 1000))))

\* C16: for that series with runRule1, the limits are
\* mean +/- 3 * rBar / 1.128, rBar the average of the 9 ranges of two
\* consecutive values, and index 4 (the value 90) is flagged by Rule #1.
ExampleLimitsAndFlag ==
    (ExampleStaged /\ pc = "ruled" /\ viewModel.runRule1) =>
        /\ ~At(chartStages, 0).mRError
        /\ ThreeSigmaLimits(At(chartStages, 0), At(chartStages, 0).mean,
                            Div(PairRanges(1, 9), Num(9)))
        /\ YValue(4) = Num(90)
        /\ 4 \in ColoredBy("meanPoints")

\* the value 90 above the upper limit, flagged alone by Rule #1
ExampleFlagWitness ==
    /\ ExampleStaged
    /\ pc = "ruled"
    /\ viewModel.runRule1
    /\ GtSurd(YValue(4), At(chartStages, 0).uCL)
    /\ ColoredBy("meanPoints") = {4}

\* C17: with a stage column, every stage GetStages produces is a longest
\* run of points with one label: each point from firstId to lastId has the
\* label of the stage, and two stages next to each other differ in label.
StagesAreLongestRuns ==
    (pc = "staged" /\ options.stageColumn) =>
        \A i \in StageIds :
            /\ \A j \in PointsOf(At(chartStages, i)) :
                   At(options.labels, j) = At(chartStages, i).stage
            /\ i > 0 => At(chartStages, i).stage # At(chartStages, i - 1).stage

\* three stages "A", "B", "A", the second of two points
LongestRunsWitness ==
    /\ pc = "staged"
    /\ options.stageColumn
    /\ Len(chartStages) = 3
    /\ At(chartStages, 1).count = 2
    /\ At(chartStages, 1).stage = "B"
    /\ At(chartStages, 2).stage = "A"

\* C18: without a stage column, GetStages makes one stage of a series of n
\* points (n >= 1): firstId 0, lastId n - 1, count n, and stageDividerX
\* equal to endX, the position of the last point.
UnlabelledSeriesIsOneStage ==
    (pc = "staged" /\ ~options.stageColumn /\ NPoints >= 1) =>
        /\ Len(chartStages) = 1
        /\ At(chartStages, 0).firstId = 0
        /\ At(chartStages, 0).lastId = NPoints - 1
        /\ At(chartStages, 0).count = NPoints
        /\ At(chartStages, 0).stageDividerX = At(chartStages, 0).endX
        /\ At(chartStages, 0).endX = At(viewModel.dataPoints, NPoints - 1).xValue

\* one stage made of a series of four points with no stage column
OneStageWitness ==
    /\ pc = "staged"
    /\ ~options.stageColumn
    /\ NPoints = 4
    /\ Len(chartStages) = 1
    /\ At(chartStages, 0).startX # At(chartStages, 0).stageDividerX

\* C19 as stated: the stages CalcStats leaves, in build "MR" and in build
\* "SD" with or without useSDSubGroups, still have
\* count = lastId - firstId + 1 each and counts that sum to n, also when a
\* label comes back in a later stage ("A", "B", "A").
StageCountsAfterCalcStats ==
    pc \in {"calculated", "ruled"} =>
        /\ \A i \in StageIds :
               At(chartStages, i).count =
                   At(chartStages, i).lastId - At(chartStages, i).firstId + 1
        /\ SumOfCounts(chartStages, 0) = NPoints

\* C20: every stage GetStages produces has the sum of the values of its
\* points firstId..lastId as sum and sum / count as mean
\* (mean * count = sum), also the stage closed by a change of label at the
\* last point and the stage of one point opened there; a series of one point
\* gives one stage with count 1 and the value as mean.
StageSumAndMean ==
    pc = "staged" =>
        /\ \A i \in StageIds :
               /\ At(chartStages, i).sum = SumOver(PointsOf(At(chartStages, i)))
               /\ At(chartStages, i).mean =
                      Div(At(chartStages, i).sum, Num(At(chartStages, i).count))
               /\ Mul(At(chartStages, i).mean, Num(At(chartStages, i).count)) =
                      At(chartStages, i).sum
        /\ NPoints = 1 =>
               /\ Len(chartStages) = 1
               /\ At(chartStages, 0).count = 1
               /\ At(chartStages, 0).mean = YValue(0)

\* a stage of three points with values not all equal, closed by the change
\* of label at the last point, and the stage of one point opened there
SumAndMeanWitness ==
    /\ pc = "staged"
    /\ Len(chartStages) = 2
    /\ At(chartStages, 0).count = 3
    /\ At(chartStages, 0).mean # YValue(0)
    /\ At(chartStages, 1).firstId = NPoints - 1
    /\ At(chartStages, 1).count = 1
    /\ At(chartStages, 1).mean = YValue(NPoints - 1)

\* the position of point j as a number
XAt(j) == ValueOf(At(viewModel.dataPoints, j).xValue)

\* C21: of the stages GetStages produces, each but the last has the
\* midpoint (a + b) / 2 of the position a of its last point and the position
\* b of the first point of the next stage as stageDividerX, the last has its
\* endX as stageDividerX, each has the positions of its first and last point
\* as startX and endX, and with ascending positions
\* startX <= endX <= stageDividerX <= startX of the next stage.
DividersAtMidpoints ==
    pc = "staged" =>
        \A i \in StageIds :
            /\ At(chartStages, i).startX =
                   At(viewModel.dataPoints, At(chartStages, i).firstId).xValue
            /\ At(chartStages, i).endX =
                   At(viewModel.dataPoints, At(chartStages, i).lastId).xValue
            /\ ~Gt(ValueOf(At(chartStages, i).startX),
                   ValueOf(At(chartStages, i).endX))
            /\ ~Gt(ValueOf(At(chartStages, i).endX),
                   ValueOf(At(chartStages, i).stageDividerX))
            /\ i = Len(chartStages) - 1 =>
                   At(chartStages, i).stageDividerX = At(chartStages, i).endX
            /\ i < Len(chartStages) - 1 =>
                   /\ At(chartStages, i).stageDividerX.t = "number"
                   /\ At(chartStages, i).stageDividerX.v =
                          Div(Add(XAt(At(chartStages, i).lastId),
                                  XAt(At(chartStages, i + 1).firstId)), Num(2))
                   /\ ~Gt(ValueOf(At(chartStages, i).stageDividerX),
                          ValueOf(At(chartStages, i + 1).startX))

\* two stages of two points each: the divider of the first at 5/2, between
\* its end 2 and the start 3 of the second
MidpointWitness ==
    /\ pc = "staged"
    /\ Len(chartStages) = 2
    /\ At(chartStages, 0).endX = XNumber(2)
    /\ At(chartStages, 0).stageDividerX.v = Norm(5, 2)
    /\ At(chartStages, 1).startX = XNumber(3)
    /\ At(chartStages, 1).stageDividerX = XNumber(4)

\* the largest and the smallest of the values of the points ids
MaxOver(ids) ==
    CHOOSE y \in {YValue(j) : j \in ids} : \A j \in ids : ~Gt(YValue(j), y)

MinOver(ids) ==
    CHOOSE y \in {YValue(j) : j \in ids} : \A j \in ids : ~Lt(YValue(j), y)

\* the sum of max - min over the windows of w points that start at p, p + 1,
\* .., last
RECURSIVE SumOfRanges(_, _, _)
SumOfRanges(p, last, w) ==
    IF p > last THEN Num(0)
    ELSE Add(Sub(MaxOver(p..(p + w - 1)), MinOver(p..(p + w - 1))),
             SumOfRanges(p + 1, last, w))

\* st has the limits mean +/- numsds * rBar / d2
MovingRangeLimits(st, rBar, d2) ==
    /\ ~st.mRError
    /\ st.uCL = Plain(Add(st.mean,
                          Div(Mul(viewModel.standardDeviations, rBar), d2)))
    /\ st.lCL = Plain(Sub(st.mean,
                          Div(Mul(viewModel.standardDeviations, rBar), d2)))

\* C22: in build "MR", for every stage with count >= window, rBar is the
\* average of max - min over the count - window + 1 windows of window points
\* in a row of the stage, and uCL, lCL are mean +/- numsds * rBar / d2, d2 the
\* entry of the table for the window: the limits come from the points of the
\* stage alone, whether or not another stage is marked mRError.
LimitsFromMovingRanges ==
    (variant = "MR" /\ pc \in {"calculated", "ruled"}) =>
        \A i \in StageIds :
            At(chartStages, i).count >= viewModel.movingRange.n =>
                MovingRangeLimits(
                    At(chartStages, i),
                    Div(SumOfRanges(At(chartStages, i).firstId,
                                    At(chartStages, i).lastId
                                        - viewModel.movingRange.n + 1,
                                    viewModel.movingRange.n),
                        Num(At(chartStages, i).count
                                - viewModel.movingRange.n + 1)),
                    Norm(d2Array[viewModel.movingRange.n], 1000))

\* moving range 3: a stage of three points, the middle one the largest, with
\* limits apart, next to a stage marked mRError
MovingRangeWitness ==
    /\ variant = "MR"
    /\ pc = "calculated"
    /\ viewModel.movingRange = Num(3)
    /\ Len(chartStages) = 2
    /\ At(chartStages, 0).count = 3
    /\ Gt(YValue(1), YValue(0))
    /\ Gt(YValue(1), YValue(2))
    /\ ~At(chartStages, 0).mRError
    /\ At(chartStages, 0).uCL # At(chartStages, 0).lCL
    /\ At(chartStages, 1).mRError

\* where the lines of stage i start: at the divider of the stage before, at
\* startX for the first stage
LineStart(i) ==
    IF i > 0 THEN At(chartStages, i - 1).stageDividerX
    ELSE At(chartStages, i).startX

\* the stages with limits, in order
LimitStageIds ==
    SelectSeq([k \in 1..Len(chartStages) |-> k - 1],
              LAMBDA i : HasLimits(At(chartStages, i)))

\* C23: CalcStats leaves one segment of the mean and one divider for each
\* stage, in the order of the stages; the segment of stage 0 starts at its
\* startX, that of a later stage at the stageDividerX of the stage before, and
\* each ends at the stageDividerX of its stage, so that each starts where the
\* one before ends.  In build "MR" the lists of UCL and LCL segments hold one
\* segment for each stage not marked mRError and none for the others; in
\* build "SD" one for every stage.
OneSegmentForEachStage ==
    pc \in {"calculated", "ruled"} =>
        /\ Len(meanLine) = Len(chartStages)
        /\ Len(stageDividers) = Len(chartStages)
        /\ \A i \in StageIds :
               /\ At(meanLine, i).x1 = LineStart(i)
               /\ At(meanLine, i).x2 = At(chartStages, i).stageDividerX
               /\ i > 0 => At(meanLine, i).x1 = At(meanLine, i - 1).x2
               /\ At(stageDividers, i).x1 = At(chartStages, i).stageDividerX
               /\ At(stageDividers, i).prevDividerX = LineStart(i)
               /\ At(stageDividers, i).stageName = At(chartStages, i).stage
        /\ Len(uclLines) = Len(LimitStageIds)
        /\ Len(lclLines) = Len(LimitStageIds)
        /\ \A k \in 1..Len(LimitStageIds) :
               /\ uclLines[k].x1 = LineStart(LimitStageIds[k])
               /\ uclLines[k].x2 = At(chartStages, LimitStageIds[k]).stageDividerX
               /\ lclLines[k].x1 = LineStart(LimitStageIds[k])
               /\ lclLines[k].x2 = At(chartStages, LimitStageIds[k]).stageDividerX
        /\ variant = "SD" => Len(uclLines) = Len(chartStages)

\* build "MR": two stages, the first marked mRError, two segments of the
\* mean and one of each limit, that of the second stage
OneSegmentWitness ==
    /\ variant = "MR"
    /\ pc = "calculated"
    /\ Len(chartStages) = 2
    /\ At(chartStages, 0).mRError
    /\ ~At(chartStages, 1).mRError
    /\ Len(meanLine) = 2
    /\ Len(uclLines) = 1
    /\ uclLines[1].x1 = At(chartStages, 0).stageDividerX

\* C24: every segment CalcStats leaves is level, at the height of its own
\* stage: the segment of stage i has y1 = y2 = the mean of stage i in the list
\* of the mean, y1 = y2 = uCL of stage i in the list of UCL and
\* y1 = y2 = lCL of stage i in the list of LCL, for stage 0 and for the later
\* stages.
SegmentsAreLevel ==
    (pc \in {"calculated", "ruled"} /\ Len(meanLine) = Len(chartStages)
        /\ Len(uclLines) = Len(LimitStageIds)
        /\ Len(lclLines) = Len(LimitStageIds)) =>
        /\ \A i \in StageIds :
               /\ At(meanLine, i).y1 = At(chartStages, i).mean
               /\ At(meanLine, i).y2 = At(chartStages, i).mean
        /\ \A k \in 1..Len(LimitStageIds) :
               /\ uclLines[k].y1 = At(chartStages, LimitStageIds[k]).uCL
               /\ uclLines[k].y2 = At(chartStages, LimitStageIds[k]).uCL
               /\ lclLines[k].y1 = At(chartStages, LimitStageIds[k]).lCL
               /\ lclLines[k].y2 = At(chartStages, LimitStageIds[k]).lCL

\* C25: in build "SD" with useSDSubGroups, the count and the sum of the
\* group of a label are the totals over all the stages with the label, next
\* to each other or not, its mean is that sum divided by that count, and all
\* the stages with the label end with the same mean, uCL and lCL; without
\* useSDSubGroups two stages with one label have mean and limits from their
\* own points alone.
GroupsAreTotalsByLabel ==
    /\ (variant = "SD" /\ pc = "staged") =>
           \A k \in 1..Len(GetUnique(chartStages)) :
               /\ GetUnique(chartStages)[k].count =
                      Cardinality(GroupPoints(GetUnique(chartStages)[k]))
               /\ GetUnique(chartStages)[k].sum =
                      SumOver(GroupPoints(GetUnique(chartStages)[k]))
               /\ GetUnique(chartStages)[k].mean =
                      Div(GetUnique(chartStages)[k].sum,
                          Num(GetUnique(chartStages)[k].count))
               /\ \A m \in 1..Len(GetUnique(chartStages)) :
                      m # k => GetUnique(chartStages)[m].stage #
                                   GetUnique(chartStages)[k].stage
    /\ (variant = "SD" /\ pc \in {"calculated", "ruled"}
           /\ viewModel.useSDSubGroups) =>
           \A i \in StageIds :
               /\ At(chartStages, i).mean =
                      MeanOver(GroupPoints(At(chartStages, i)))
               /\ At(chartStages, i).count =
                      Cardinality(GroupPoints(At(chartStages, i)))
               /\ \A k \in StageIds :
                      At(chartStages, k).stage = At(chartStages, i).stage =>
                          /\ At(chartStages, k).mean = At(chartStages, i).mean
                          /\ At(chartStages, k).uCL = At(chartStages, i).uCL
                          /\ At(chartStages, k).lCL = At(chartStages, i).lCL
    /\ (variant = "SD" /\ pc \in {"calculated", "ruled"}
           /\ ~viewModel.useSDSubGroups) =>
           \A i \in StageIds :
               /\ At(chartStages, i).mean = MeanOver(PointsOf(At(chartStages, i)))
               /\ Cardinality(PointsOf(At(chartStages, i))) >= 2 =>
                      LimitsAre(At(chartStages, i),
                                MeanOver(PointsOf(At(chartStages, i))),
                                SquaredSdOf(
                                    SquaresOver(PointsOf(At(chartStages, i)),
                                        MeanOver(PointsOf(At(chartStages, i)))),
                                    Cardinality(PointsOf(At(chartStages, i)))))

\* useSDSubGroups: stages "A", "B", "A", the points of the first "A" other
\* in mean than those of the second, both stages with the mean of the three
\* points of "A"
GroupTotalsWitness ==
    /\ variant = "SD"
    /\ pc = "calculated"
    /\ viewModel.useSDSubGroups
    /\ Len(chartStages) = 3
    /\ At(chartStages, 0).stage = At(chartStages, 2).stage
    /\ MeanOver(PointsOf(At(chartStages, 0))) #
           MeanOver(PointsOf(At(chartStages, 2)))
    /\ At(chartStages, 0).count = 3
    /\ At(chartStages, 0).mean = At(chartStages, 2).mean
    /\ At(chartStages, 0).uCL = At(chartStages, 2).uCL

\* the calls of DrawRulePoints with a list of Rule #3
Rule3Calls ==
    {drawn[m] : m \in {m \in 1..Len(drawn) :
                          drawn[m].list \in {"consecutiveUPoints",
                                             "consecutiveLPoints"}}}

\* C26: in Rule #3 a point with exactly the mean of its stage as value ends
\* the run above the mean and the run below it: points above the mean with a
\* point on the mean between them are never in one run (5 points above, 1 on
\* the mean, 4 above: nothing flagged).
PointOnMeanEndsRuns ==
    (pc = "updated" /\ viewModel.runRule3) =>
        \A i \in StageIds :
            \A j \in PointsOf(At(chartStages, i)) :
                YValue(j) = At(chartStages, i).mean =>
                    \A c \in Rule3Calls :
                        ~\E a, b \in 1..Len(c.points) :
                            c.points[a] < j /\ j < c.points[b]

\* the points flagged on the stages of the chart with the rules r1, r2, r3
FlaggedWith(r1, r2, r3) ==
    RuleColored(ApplyRules([viewModel EXCEPT !.runRule1 = r1, !.runRule2 = r2,
                                             !.runRule3 = r3], chartStages))

\* C27: whatever the data and the choice of runRule1, runRule2, runRule3,
\* the flagged points are among 0..n-1 and are the union of the points each
\* enabled rule flags alone: a rule neither adds to nor takes from what
\* another flags, a rule that is off flags nothing, all three off flag
\* nothing, and a point flagged twice is flagged as if once.
FlaggedIsUnionOfRules ==
    (pc = "updated" /\ NPoints > 0) =>
        /\ flagged \subseteq 0..(NPoints - 1)
        /\ flagged = RuleColored(drawn)
        /\ flagged =
               (IF viewModel.runRule1 THEN FlaggedWith(TRUE, FALSE, FALSE) ELSE {})
               \cup (IF viewModel.runRule2 THEN FlaggedWith(FALSE, TRUE, FALSE)
                     ELSE {})
               \cup (IF viewModel.runRule3 THEN FlaggedWith(FALSE, FALSE, TRUE)
                     ELSE {})
        /\ FlaggedWith(FALSE, FALSE, FALSE) = {}
        /\ (~viewModel.runRule1 /\ ~viewModel.runRule2 /\ ~viewModel.runRule3)
               => flagged = {}

\* the three rules on: a point flagged by Rule #1 and by Rule #2, and a point
\* that Rule #1 alone flags
UnionOfRulesWitness ==
    /\ pc = "updated"
    /\ viewModel.runRule1
    /\ viewModel.runRule2
    /\ viewModel.runRule3
    /\ FlaggedWith(TRUE, FALSE, FALSE) \cap FlaggedWith(FALSE, TRUE, FALSE) # {}
    /\ FlaggedWith(TRUE, FALSE, FALSE) \ FlaggedWith(FALSE, TRUE, FALSE) # {}
    /\ flagged # 0..(NPoints - 1)

\* the positions of the data view are all numbers or all dates, and the
\* values all numbers
WellFormed(o) ==
    /\ o.categories
    /\ o.values
    /\ Len(o.x) >= 1
    /\ Len(o.y) = Len(o.x)
    /\ \/ \A k \in 1..Len(o.x) : o.x[k].t = "number"
       \/ \A k \in 1..Len(o.x) : o.x[k].t = "date"
    /\ \A k \in 1..Len(o.y) : o.y[k].t = "number"

\* C28: build "MR" turns down only data that is not well formed: a series
\* of n >= 1 points with positions all numbers (or all dates) and values all
\* numbers, the first position or the first value 0 included, leaves after
\* the refresh stages that cover the n points.
WellFormedSeriesIsStaged ==
    (variant = "MR" /\ pc = "updated" /\ WellFormed(options)) =>
        /\ Len(chartStages) >= 1
        /\ NPoints = Len(options.y)
        /\ At(chartStages, 0).firstId = 0
        /\ At(chartStages, Len(chartStages) - 1).lastId = Len(options.y) - 1
        /\ SumOfCounts(chartStages, 0) = Len(options.y)

\* C29: in build "MR" with runRule1, no point of a stage marked mRError
\* (count < window, no uCL and lCL computed for it) is flagged by Rule #1,
\* whatever its value.
NoRule1WithoutLimits ==
    (variant = "MR" /\ pc = "ruled" /\ viewModel.runRule1) =>
        \A i \in StageIds :
            At(chartStages, i).mRError =>
                PointsOf(At(chartStages, i)) \cap ColoredBy("meanPoints") = {}

\* C30: in build "MR", for a window from 2 to 50 and a stage with
\* count >= window, every index of data read for the moving ranges of the
\* stage, the index read to start mrMin and mrMax included, is one of
\* firstId..lastId of the stage: no value of another stage and no index
\* outside 0..n-1 is read.
WindowReadsStayInStage ==
    (variant = "MR" /\ pc \in {"calculated", "ruled"}) =>
        /\ viewModel.movingRange.n \in 2..50
        /\ \A i \in StageIds :
               At(chartStages, i).count >= viewModel.movingRange.n =>
                   \A j \in WindowEnds(At(chartStages, i), viewModel.movingRange.n) :
                       /\ WindowReads(j, viewModel.movingRange.n) \subseteq
                              PointsOf(At(chartStages, i))
                       /\ WindowReads(j, viewModel.movingRange.n) \subseteq
                              0..(NPoints - 1)
                       /\ WindowReads(j, viewModel.movingRange.n) \subseteq
                              PointsOf(At(chartStages, i)) =>
                              WindowRange(viewModel.dataPoints, j,
                                          viewModel.movingRange.n) =
                                  Sub(MaxOver(WindowReads(j, viewModel.movingRange.n)),
                                      MinOver(WindowReads(j, viewModel.movingRange.n)))

\* moving range 3: the second stage, of three points, has one window, read
\* from its own three points
WindowReadsWitness ==
    /\ variant = "MR"
    /\ pc = "calculated"
    /\ viewModel.movingRange = Num(3)
    /\ Len(chartStages) = 2
    /\ At(chartStages, 1).count = 3
    /\ ~At(chartStages, 1).mRError
    /\ WindowEnds(At(chartStages, 1), 3) = {3}
    /\ WindowReads(3, 3) = PointsOf(At(chartStages, 1))

=============================================================================
